---------------------------- MODULE Spec2Model ----------------------------
(***************************************************************************)
(* The geometry service of larcore: the load pipeline                      *)
(* (Geometry::LoadNewGeometry, GeometryCore::LoadGeometryFile,             *)
(* GeometryCore::ApplyChannelMap), the reload at the beginning of a run    *)
(* (Geometry::preBeginRun) and the queries answered from the loaded        *)
(* geometry and from the function-local static tables of GeometryCore.cxx  *)
(* and CryostatGeo.cxx.                                                    *)
(*                                                                         *)
(* Coordinates are integers; a transform is a translation, composed along  *)
(* the path from the top node as the builder composes the node matrices.   *)
(***************************************************************************)
EXTENDS Integers, Sequences, FiniteSets, TLC

VARIABLES
  fCryostats,       \* GeometryCore: the cryostats (with their TPCs, planes, wires, optical detectors)
  fAuxDets,         \* GeometryCore: the auxiliary detectors
  fChannelMapAlg,   \* GeometryCore: the installed channel mapping, or NoChannelMap
  fDetectorName,    \* GeometryCore: the current detector name
  fGDMLfile,        \* GeometryCore: the file the geometry was last loaded from
  fForceUseFCLOnly, \* Geometry: configuration flag
  cstatStatic,      \* FindCryostatAtPosition: static cstatBoundaries and firstCalculation
  tpcStatic,        \* CryostatGeo::PositionToTPC: static tpcBoundaries
  opDetStatic,      \* OpDetFromCryo: static Loaded, LowestID, NCryo
  initArg,          \* the element tree handed to the last ChannelMapAlg::Initialize call
  loadState,        \* how the last load ended: "ok", or the step that threw
  loadCount,        \* number of loads started so far
  lastOp,           \* the last operation run and its arguments
  lastResult,       \* what the last operation returned (or the error it raised)
  thr,              \* concurrent readers: per thread, the position inside its query
  rl                \* a reload in flight: its position in the pipeline

vars == << fCryostats, fAuxDets, fChannelMapAlg, fDetectorName, fGDMLfile,
           fForceUseFCLOnly, cstatStatic, tpcStatic, opDetStatic,
           initArg, loadState, loadCount, lastOp, lastResult, thr, rl >>

-----------------------------------------------------------------------------
(* Program constants *)

\* std::vector<const TGeoNode*> path(8)
MaxDepth == 8
\* geo::CryostatID::InvalidID = UINT_MAX (the reserved maximum; TLC integers are 32-bit signed)
InvalidID == 2147483647
\* PositionEpsilon default 1.e-4: the wiggle factor is (WiggleDen + 1) / WiggleDen
WiggleDen == 10000

(* Bounds of the model *)

\* loads (the construction included) a behaviour may start
MaxLoads == 2

NoChannelMap == [null |-> TRUE]
NoTree == << >>

-----------------------------------------------------------------------------
(* The node trees the loader supplies (TGeoManager::Import), by file name  *)

Node(name, off, half, kids) ==
  [name |-> name, off |-> off, half |-> half, kids |-> kids, planes |-> << >>]

\* a wire: its centre in the plane and, in the (y, z) projection, its
\* direction and half length
WireNodeAlong(name, z, dir, hl) ==
  [name |-> name, off |-> <<0, 0, z>>, dir |-> dir, hl |-> hl]

\* a wire along y
WireNode(name, z) == WireNodeAlong(name, z, <<1, 0>>, 2)

PlaneNode(name, x, wires) == [name |-> name, off |-> <<x, 0, 0>>, wires |-> wires]

TPCNode(name, off, half, planes) ==
  [name |-> name, off |-> off, half |-> half, kids |-> << >>, planes |-> planes]

OpDetNode(name, off) == Node(name, off, <<0, 0, 0>>, << >>)

\* a chain of n nested volumes that are neither cryostats nor auxiliary detectors
RECURSIVE Chain(_)
Chain(n) ==
  IF n = 0 THEN << >>
  ELSE << Node("volEnclosure", <<0, 0, 0>>, <<0, 0, 0>>, Chain(n - 1)) >>

OneWire == << WireNode("w0", 1) >>
TwoWires == << WireNode("w0", 1), WireNode("w1", 2) >>
TwoWiresRev == << WireNode("w0", 2), WireNode("w1", 1) >>

\* "deta": two cryostats discovered in decreasing x; the first discovered one
\* holds two TPCs (discovered in decreasing x) and two optical detectors at
\* the same position, the second one holds one TPC and one optical detector
DetA ==
  Node("volWorld", <<0, 0, 0>>, <<100, 100, 100>>, <<
    Node("volCryostat", <<40, 0, 0>>, <<20, 10, 10>>, <<
      TPCNode("volTPC", <<10, 0, 0>>, <<8, 10, 10>>,
        << PlaneNode("p0", 7, TwoWiresRev), PlaneNode("p1", 5, OneWire) >>),
      TPCNode("volTPC", <<-10, 0, 0>>, <<8, 10, 10>>,
        << PlaneNode("p0", -7, OneWire) >>),
      OpDetNode("volOpDetSensitive", <<0, 5, 5>>),
      OpDetNode("volOpDetSensitive", <<0, 5, 5>>) >>),
    Node("volEnclosure", <<0, 0, 0>>, <<0, 0, 0>>, <<
      Node("volCryostat", <<-40, 0, 0>>, <<20, 10, 10>>, <<
        TPCNode("volTPC", <<0, 0, 0>>, <<18, 10, 10>>,
          << PlaneNode("p0", -17, TwoWires) >>),
        OpDetNode("volOpDetSensitive", <<0, 0, 3>>) >>) >>),
    Node("volAuxDet", <<0, 50, 0>>, <<1, 1, 1>>, << >>) >>)

\* "detb": one cryostat with one TPC of two planes
DetB ==
  Node("volWorld", <<0, 0, 0>>, <<100, 100, 100>>, <<
    Node("volCryostat", <<10, 0, 0>>, <<30, 10, 10>>, <<
      TPCNode("volTPC", <<0, 0, 0>>, <<25, 10, 10>>,
        << PlaneNode("p0", 24, OneWire), PlaneNode("p1", 22, TwoWiresRev) >>),
      OpDetNode("volOpDetSensitive", <<0, 0, 1>>),
      OpDetNode("volOpDetSensitive", <<0, 0, 2>>) >>) >>)

\* "deep": a cryostat, then a branch nested deeper than the path buffer
Deep ==
  Node("volWorld", <<0, 0, 0>>, <<100, 100, 100>>, <<
    Node("volCryostat", <<60, 0, 0>>, <<5, 10, 10>>, <<
      TPCNode("volTPC", <<0, 0, 0>>, <<4, 10, 10>>,
        << PlaneNode("p0", 3, OneWire) >>) >>) >>
    \o Chain(MaxDepth - 1))

\* "detc": one cryostat with two TPCs.  The TPC at lower x has three planes
\* whose wires run along (1,1), along (1,-1) and along y; the last wire
\* along y lies beyond the reach of the inclined wires.  The other TPC has
\* two planes, both of wires along y.
DetC ==
  Node("volWorld", <<0, 0, 0>>, <<100, 100, 100>>, <<
    Node("volCryostat", <<0, 0, 0>>, <<30, 10, 10>>, <<
      TPCNode("volTPC", <<-10, 0, 0>>, <<8, 10, 10>>,
        << PlaneNode("p0", 3, << WireNodeAlong("w0", 0, <<1, 1>>, 2),
                                 WireNodeAlong("w1", 2, <<1, 1>>, 2) >>),
           PlaneNode("p1", 5, << WireNodeAlong("w0", 0, <<1, -1>>, 2),
                                 WireNodeAlong("w1", 3, <<1, -1>>, 2) >>),
           PlaneNode("p2", 7, << WireNode("w0", 1), WireNode("w1", 6) >>) >>),
      TPCNode("volTPC", <<10, 0, 0>>, <<8, 10, 10>>,
        << PlaneNode("p0", 3, OneWire), PlaneNode("p1", 5, TwoWires) >>),
      OpDetNode("volOpDetSensitive", <<0, 0, 1>>) >>) >>)

\* the files cet::search_path finds, and the tree each one holds
Files == {"deta.gdml", "detb.gdml", "deep.gdml", "detc.gdml"}

TreeOf(file) ==
  CASE file = "deta.gdml" -> DetA
    [] file = "detb.gdml" -> DetB
    [] file = "deep.gdml" -> Deep
    [] file = "detc.gdml" -> DetC

\* the detector names a sumdata::RunData object may carry
RunNames == {"deta", "detb", "deep", "ghost", "nodetectorname"}


-----------------------------------------------------------------------------
(* Geometry Element Builder *)

Add3(a, b) == << a[1] + b[1], a[2] + b[2], a[3] + b[3] >>

\* strncmp(nm, "volCryostat", 11) == 0
IsCryostatName(nm) == nm \in {"volCryostat"}
\* strncmp(nm, "volTPC", 6) == 0
IsTPCName(nm) == nm \in {"volTPC"}
\* strncmp(nm, OpDetGeoName().c_str(), 6) == 0
IsOpDetName(nm) == nm \in {"volOpDetSensitive"}
\* strncmp(nm, "volAuxDet", 9) == 0
IsAuxDetName(nm) == nm \in {"volAuxDet"}

\* WireGeo, PlaneGeo, TPCGeo constructors: the elements below a volTPC node,
\* in discovery order, each with its world origin and no ID yet
MakeWire(w, world, k) ==
  [name |-> w.name, disc |-> k, origin |-> Add3(world, w.off), id |-> << >>,
   dir |-> w.dir, hl |-> w.hl]

MakePlane(p, world, k) ==
  LET o == Add3(world, p.off) IN
  [name |-> p.name, disc |-> k, origin |-> o, id |-> << >>,
   wires |-> [i \in 1..Len(p.wires) |-> MakeWire(p.wires[i], o, i)]]

MakeTPC(node, world, k) ==
  [name |-> node.name, disc |-> k, origin |-> world, half |-> node.half,
   id |-> << >>, drift |-> "kUnknownDrift",
   planes |-> [i \in 1..Len(node.planes) |-> MakePlane(node.planes[i], world, i)]]

MakeOpDet(node, world, k) == [name |-> node.name, disc |-> k, origin |-> world]

\* the test of the next layer against the path buffer taking its size for a
\* valid index
PastPath_OffByOne(deeper) == deeper > MaxDepth

\* if (deeper >= path.size()) throw ...
PastPath(deeper) == deeper >= MaxDepth

\* path[depth] is read or written: top is the highest index so far
Touch(acc, depth) == [acc EXCEPT !.top = IF depth > @ THEN depth ELSE @]

\* CryostatGeo::FindTPC: acc is [ok, err, list, top]; an exception stops the
\* descent
RECURSIVE FindTPC(_, _, _, _)
RECURSIVE FindTPCKids(_, _, _, _, _)
FindTPC(node, parentWorld, depth, acc) ==
  LET world == Add3(parentWorld, node.off) IN
  IF ~acc.ok THEN acc
  ELSE IF IsTPCName(node.name)
    THEN [Touch(acc, depth) EXCEPT
            !.list = Append(@, MakeTPC(node, world, Len(acc.list) + 1))]
  ELSE IF PastPath(depth + 1)
    THEN [Touch(acc, depth) EXCEPT !.ok = FALSE, !.err = "BadTGeoNode"]
  ELSE FindTPCKids(node.kids, 1, world, depth + 1, Touch(acc, depth))

FindTPCKids(kids, i, world, deeper, acc) ==
  IF i > Len(kids) \/ ~acc.ok THEN acc
  ELSE FindTPCKids(kids, i + 1, world, deeper, FindTPC(kids[i], world, deeper, acc))

\* CryostatGeo::FindOpDet
RECURSIVE FindOpDet(_, _, _, _)
RECURSIVE FindOpDetKids(_, _, _, _, _)
FindOpDet(node, parentWorld, depth, acc) ==
  LET world == Add3(parentWorld, node.off) IN
  IF ~acc.ok THEN acc
  ELSE IF IsOpDetName(node.name)
    THEN [Touch(acc, depth) EXCEPT
            !.list = Append(@, MakeOpDet(node, world, Len(acc.list) + 1))]
  ELSE IF PastPath(depth + 1)
    THEN [Touch(acc, depth) EXCEPT !.ok = FALSE, !.err = "BadTGeoNode"]
  ELSE FindOpDetKids(node.kids, 1, world, depth + 1, Touch(acc, depth))

FindOpDetKids(kids, i, world, deeper, acc) ==
  IF i > Len(kids) \/ ~acc.ok THEN acc
  ELSE FindOpDetKids(kids, i + 1, world, deeper, FindOpDet(kids[i], world, deeper, acc))

\* opdet_sort(t1, t2): t1 goes before t2
opdet_sort(t1, t2) ==
  IF t1.origin[3] # t2.origin[3] THEN t1.origin[3] > t2.origin[3]
  ELSE IF t1.origin[2] # t2.origin[2] THEN t1.origin[2] > t2.origin[2]
  ELSE t1.origin[1] > t2.origin[1]

Perms(n) == { p \in [1..n -> 1..n] : \A i, j \in 1..n : i # j => p[i] # p[j] }

\* std::sort(fOpDets.begin(), fOpDets.end(), opdet_sort): every order the
\* comparator allows; std::sort leaves the order of equivalent elements
\* unspecified
StdSortOpDets(s) ==
  { [k \in 1..Len(s) |-> s[p[k]]] : p \in
      { q \in Perms(Len(s)) :
          \A i, j \in 1..Len(s) : i < j => ~opdet_sort(s[q[j]], s[q[i]]) } }

\* CryostatGeo::CryostatGeo, up to the sort of the optical detectors
CryostatGeo(node, world, depth, k) ==
  LET start == [ok |-> TRUE, err |-> "", list |-> << >>, top |-> depth]
      \* path[depth] is the cryostat node itself: FindTPC and FindOpDet start there
      tpcs == FindTPC([node EXCEPT !.off = <<0, 0, 0>>], world, depth, start)
      opds == FindOpDet([node EXCEPT !.off = <<0, 0, 0>>], world, depth,
                        [start EXCEPT !.top = tpcs.top])
  IN  IF ~tpcs.ok THEN [ok |-> FALSE, err |-> tpcs.err, top |-> tpcs.top]
      ELSE IF ~opds.ok THEN [ok |-> FALSE, err |-> opds.err, top |-> opds.top]
      ELSE [ok |-> TRUE, err |-> "", top |-> opds.top,
            cryo |-> [name |-> node.name, disc |-> k, origin |-> world,
                      half |-> node.half, id |-> << >>,
                      tpcs |-> tpcs.list, opdets |-> opds.list]]

\* GeometryCore::FindCryostat and MakeCryostat
RECURSIVE FindCryostat(_, _, _, _)
RECURSIVE FindCryostatKids(_, _, _, _, _)
FindCryostat(node, parentWorld, depth, acc) ==
  LET world == Add3(parentWorld, node.off) IN
  IF ~acc.ok THEN acc
  ELSE IF IsCryostatName(node.name)
    THEN LET c == CryostatGeo(node, world, depth, Len(acc.list) + 1) IN
         IF c.ok THEN [Touch(acc, c.top) EXCEPT !.list = Append(@, c.cryo)]
         ELSE [Touch(acc, c.top) EXCEPT !.ok = FALSE, !.err = c.err]
  ELSE IF PastPath(depth + 1)
    THEN [Touch(acc, depth) EXCEPT !.ok = FALSE, !.err = "GeometryCore"]
  ELSE FindCryostatKids(node.kids, 1, world, depth + 1, Touch(acc, depth))

FindCryostatKids(kids, i, world, deeper, acc) ==
  IF i > Len(kids) \/ ~acc.ok THEN acc
  ELSE FindCryostatKids(kids, i + 1, world, deeper,
                        FindCryostat(kids[i], world, deeper, acc))

\* GeometryCore::FindAuxDet and MakeAuxDet
RECURSIVE FindAuxDet(_, _, _, _)
RECURSIVE FindAuxDetKids(_, _, _, _, _)
FindAuxDet(node, parentWorld, depth, acc) ==
  LET world == Add3(parentWorld, node.off) IN
  IF ~acc.ok THEN acc
  ELSE IF IsAuxDetName(node.name)
    THEN [Touch(acc, depth) EXCEPT !.list = Append(@, [name |-> node.name,
                                                       disc |-> Len(acc.list) + 1,
                                                       origin |-> world])]
  ELSE IF PastPath(depth + 1)
    THEN [Touch(acc, depth) EXCEPT !.ok = FALSE, !.err = "GeometryCore"]
  ELSE FindAuxDetKids(node.kids, 1, world, depth + 1, Touch(acc, depth))

FindAuxDetKids(kids, i, world, deeper, acc) ==
  IF i > Len(kids) \/ ~acc.ok THEN acc
  ELSE FindAuxDetKids(kids, i + 1, world, deeper,
                      FindAuxDet(kids[i], world, deeper, acc))

\* the orders std::sort may leave the optical detectors of each cryostat in
OpDetOrders(cryos) ==
  { [i \in 1..Len(cryos) |-> [cryos[i] EXCEPT !.opdets = f[i]]] :
      f \in { g \in [1..Len(cryos) ->
                       UNION { StdSortOpDets(cryos[i].opdets) : i \in 1..Len(cryos) }] :
              \A i \in 1..Len(cryos) : g[i] \in StdSortOpDets(cryos[i].opdets) } }

\* GeometryCore::LoadGeometryFile after ClearGeometry: the outcomes of
\* FindCryostat(path, 0) and FindAuxDet(path, 0) on the imported tree.
\* An exception leaves what was built before it.
FindElements(top) ==
  LET start == [ok |-> TRUE, err |-> "", list |-> << >>, top |-> 0]
      cr == FindCryostat(top, <<0, 0, 0>>, 0, start)
      ad == IF cr.ok THEN FindAuxDet(top, <<0, 0, 0>>, 0, [start EXCEPT !.top = cr.top])
            ELSE [start EXCEPT !.top = cr.top]
  IN  { [ok |-> cr.ok /\ ad.ok,
         err |-> IF ~cr.ok THEN cr.err ELSE ad.err,
         cryos |-> cs,
         auxdets |-> ad.list,
         top |-> ad.top] : cs \in OpDetOrders(cr.list) }

\* GeometryCore::LoadGeometryFile after ClearGeometry, on the tree a file holds
LoadGeometryFile(file) ==
  { [ok |-> b.ok, err |-> b.err, cryos |-> b.cryos, auxdets |-> b.auxdets] :
      b \in FindElements(TreeOf(file)) }

-----------------------------------------------------------------------------
(* Sorter (geo::GeoObjectSorter): increasing world position, elements at   *)
(* the same position kept in discovery order                               *)

\* the place of element i in the sorted sequence
Rank(keys, i) ==
  1 + Cardinality({ j \in 1..Len(keys) :
                      keys[j] < keys[i] \/ (keys[j] = keys[i] /\ j < i) })

StableSortBy(s, keys) ==
  [k \in 1..Len(s) |-> s[CHOOSE i \in 1..Len(s) : Rank(keys, i) = k]]

SortCryostats(cs) == StableSortBy(cs, [i \in 1..Len(cs) |-> cs[i].origin[1]])
SortTPCs(ts) == StableSortBy(ts, [i \in 1..Len(ts) |-> ts[i].origin[1]])
SortPlanes(ps) == StableSortBy(ps, [i \in 1..Len(ps) |-> ps[i].origin[1]])
SortWires(ws) == StableSortBy(ws, [i \in 1..Len(ws) |-> ws[i].origin[3]])
SortAuxDets(ads) == StableSortBy(ads, [i \in 1..Len(ads) |-> ads[i].origin[1]])

\* PlaneGeo::SortWires
PlaneSortWires(p) == [p EXCEPT !.wires = SortWires(@)]

\* TPCGeo::SortSubVolumes: the planes, and the wires of each plane
TPCSortSubVolumes(t) ==
  LET ps == SortPlanes(t.planes) IN
  [t EXCEPT !.planes = [i \in 1..Len(ps) |-> PlaneSortWires(ps[i])]]

\* the drift direction CryostatGeo::SortSubVolumes derives for one TPC from
\* its origin and the origin of its plane 0 (1.01 and 0.99 as 101/100, 99/100)
DriftDirection(t) ==
  LET tpcworld == t.origin[1]
      planeworld == t.planes[1].origin[1]
  IN  IF 100 * tpcworld > 101 * planeworld THEN "kNegX"
      ELSE IF 100 * tpcworld < 99 * planeworld THEN "kPosX"
      ELSE t.drift

\* CryostatGeo::SortSubVolumes
SortSubVolumes(c) ==
  LET ts == SortTPCs(c.tpcs) IN
  [c EXCEPT !.tpcs =
     [t \in 1..Len(ts) |->
        TPCSortSubVolumes([ts[t] EXCEPT !.drift = DriftDirection(ts[t])])]]

-----------------------------------------------------------------------------
(* Hierarchical ID Assigner *)

\* PlaneGeo::UpdateAfterSorting(planeid): the plane and its wires
PlaneUpdateAfterSorting(p, planeid) ==
  [p EXCEPT !.id = planeid,
            !.wires = [w \in 1..Len(p.wires) |->
                         [p.wires[w] EXCEPT !.id = Append(planeid, w - 1)]]]

\* TPCGeo::UpdateAfterSorting(tpcid)
TPCUpdateAfterSorting(t, tpcid) ==
  [t EXCEPT !.id = tpcid,
            !.planes = [p \in 1..Len(t.planes) |->
                          PlaneUpdateAfterSorting(t.planes[p], Append(tpcid, p - 1))]]

\* CryostatGeo::UpdateAfterSorting(cryoid)
CryoUpdateAfterSorting(c, cryoid) ==
  [c EXCEPT !.id = cryoid,
            !.tpcs = [t \in 1..Len(c.tpcs) |->
                        TPCUpdateAfterSorting(c.tpcs[t], Append(cryoid, t - 1))]]

\* SortGeometry leaving the cryostats in the reverse of the order it found them in
SortGeometry_Reversing(geo) ==
  LET cs == [i \in 1..Len(geo.cryos) |-> geo.cryos[Len(geo.cryos) + 1 - i]] IN
  [cryos |-> [i \in 1..Len(cs) |->
                CryoUpdateAfterSorting(SortSubVolumes(cs[i]), << i - 1 >>)],
   auxdets |-> SortAuxDets(geo.auxdets)]

\* GeometryCore::SortGeometry(sorter), on the pair of element collections
SortGeometry(geo) ==
  LET cs == SortCryostats(geo.cryos) IN
  [cryos |-> [i \in 1..Len(cs) |->
                CryoUpdateAfterSorting(SortSubVolumes(cs[i]), << i - 1 >>)],
   auxdets |-> SortAuxDets(geo.auxdets)]

\* UpdateAfterSorting numbering the cryostats from 1
UpdateAfterSorting_FromOne(geo) ==
  [geo EXCEPT !.cryos = [c \in 1..Len(geo.cryos) |->
                           CryoUpdateAfterSorting(geo.cryos[c], << c >>)]]

\* GeometryCore::UpdateAfterSorting()
UpdateAfterSorting(geo) ==
  [geo EXCEPT !.cryos = [c \in 1..Len(geo.cryos) |->
                           CryoUpdateAfterSorting(geo.cryos[c], << c - 1 >>)]]

-----------------------------------------------------------------------------
(* Channel Map (geo::ChannelMapAlg): one channel per wire, channels        *)
(* numbered in increasing WireID order                                     *)

\* the WireIDs of a tree, by position
WireIDsOf(cryos) ==
  UNION { UNION { UNION {
    { << c - 1, t - 1, p - 1, w - 1 >> :
        w \in 1..Len(cryos[c].tpcs[t].planes[p].wires) } :
      p \in 1..Len(cryos[c].tpcs[t].planes) } :
      t \in 1..Len(cryos[c].tpcs) } :
      c \in 1..Len(cryos) }

\* lexicographic order of two IDs of the same level
RECURSIVE LexLess(_, _)
LexLess(a, b) ==
  IF a = << >> \/ b = << >> THEN FALSE
  ELSE IF Head(a) # Head(b) THEN Head(a) < Head(b)
  ELSE LexLess(Tail(a), Tail(b))

\* ChannelMapAlg::Initialize(fGeoData): the table of the channels, channel
\* ch held at index ch + 1
Initialize(cryos) ==
  LET W == WireIDsOf(cryos) IN
  [null |-> FALSE,
   wires |-> [k \in 1..Cardinality(W) |->
                CHOOSE wid \in W :
                  Cardinality({ v \in W : LexLess(v, wid) }) = k - 1]]

\* ChannelMapAlg::Nchannels
MapNchannels(cm) == Len(cm.wires)

\* ChannelMapAlg::ChannelToWire: empty for a channel the table does not hold
MapChannelToWire(cm, channel) ==
  IF channel \in 0..(Len(cm.wires) - 1) THEN << cm.wires[channel + 1] >> ELSE << >>

\* ChannelMapAlg::PlaneWireToChannel: InvalidID (raw::InvalidChannelID) for a
\* wire the table does not hold
MapPlaneWireToChannel(cm, wid) ==
  IF \E k \in 1..Len(cm.wires) : cm.wires[k] = wid
  THEN (CHOOSE k \in 1..Len(cm.wires) : cm.wires[k] = wid) - 1
  ELSE InvalidID

-----------------------------------------------------------------------------
(* The load pipeline.  A load works on the record of the fields it reads   *)
(* and writes: cryos, auxdets, chanMap, initArg, gdml, state.              *)

\* GeometryCore::ClearGeometry
ClearGeometry(g) == [g EXCEPT !.cryos = << >>, !.auxdets = << >>]

\* ApplyChannelMap with Initialize called before the sort and the ID assignment
ApplyChannelMap_InitFirst(g, initThrows) ==
  LET numbered == UpdateAfterSorting(SortGeometry([cryos |-> g.cryos, auxdets |-> g.auxdets]))
  IN  IF initThrows
      THEN [g EXCEPT !.cryos = numbered.cryos, !.auxdets = numbered.auxdets,
                     !.initArg = g.cryos, !.state = "chanmap"]
      ELSE [g EXCEPT !.cryos = numbered.cryos, !.auxdets = numbered.auxdets,
                     !.initArg = g.cryos, !.chanMap = Initialize(g.cryos)]

\* GeometryCore::ApplyChannelMap(pChannelMap); initThrows: Initialize raises
ApplyChannelMap(g, initThrows) ==
  LET sorted == SortGeometry([cryos |-> g.cryos, auxdets |-> g.auxdets])
      numbered == UpdateAfterSorting(sorted)
  IN  IF initThrows
      THEN [g EXCEPT !.cryos = numbered.cryos, !.auxdets = numbered.auxdets,
                     !.initArg = numbered.cryos, !.state = "chanmap"]
      ELSE [g EXCEPT !.cryos = numbered.cryos, !.auxdets = numbered.auxdets,
                     !.initArg = numbered.cryos,
                     !.chanMap = Initialize(numbered.cryos)]

\* StandardGeometryHelper::doConfigureChannelMapAlg
doConfigureChannelMapAlg(g, initThrows) == ApplyChannelMap(g, initThrows)

\* Geometry::InitializeChannelMap, the channel mapping coming from the
\* ExptGeoHelperInterface service; installs: the helper is there and its
\* ConfigureChannelMapAlg applies a channel mapping to the geometry
InitializeChannelMap(g, initThrows, installs) ==
  LET h == IF installs THEN doConfigureChannelMapAlg(g, initThrows) ELSE g IN
  IF h.state # "ok" THEN h
  ELSE IF h.chanMap.null THEN [h EXCEPT !.state = "ChannelMapLoadFail"]
  ELSE h

\* Geometry::LoadNewGeometry(gdmlfile, rootfile, bForceReload): the states
\* it may leave, starting from g
LoadNewGeometry(g, gdmlfile, initThrows, installs) ==
  IF gdmlfile \notin Files
  THEN { [g EXCEPT !.state = "nofile"] }
  ELSE { IF b.ok
         THEN InitializeChannelMap(
                [g EXCEPT !.cryos = b.cryos, !.auxdets = b.auxdets,
                          !.gdml = gdmlfile, !.state = "ok"], initThrows, installs)
         ELSE [ClearGeometry(g) EXCEPT !.cryos = b.cryos, !.auxdets = b.auxdets,
                                        !.state = "builder"]
         : b \in LoadGeometryFile(gdmlfile) }

\* the fields of GeometryCore a load works on
CurrentGeo ==
  [cryos |-> fCryostats, auxdets |-> fAuxDets, chanMap |-> fChannelMapAlg,
   initArg |-> initArg, gdml |-> fGDMLfile, state |-> loadState]

\* before the first load
Unloaded ==
  [cryos |-> << >>, auxdets |-> << >>, chanMap |-> NoChannelMap,
   initArg |-> NoTree, gdml |-> "", state |-> "ok"]

-----------------------------------------------------------------------------
(* Queries.  A query returns a value, a failure value ("invalid"), or      *)
(* raises an error of some category; a read or write outside a table is    *)
(* undefined behaviour, any of whose outcomes may happen.                  *)

Value(v) == [kind |-> "value", val |-> v, cat |-> ""]
Invalid(v) == [kind |-> "invalid", val |-> v, cat |-> ""]
Error(cat) == [kind |-> "error", val |-> << >>, cat |-> cat]
Crash == [kind |-> "crash", val |-> << >>, cat |-> ""]
NoResult == [kind |-> "none", val |-> << >>, cat |-> ""]

Failed(r) == r.kind \in {"invalid", "error"}

Min(S) == CHOOSE m \in S : \A n \in S : m <= n

Zeros(n) == [k \in 1..n |-> 0]

Ncryostats(cryos) == Len(cryos)
NTPC(cryo) == Len(cryo.tpcs)
NOpDet(cryo) == Len(cryo.opdets)

\* the six boundaries -x, +x, -y, +y, -z, +z of a box-shaped element
Boundaries(e) ==
  << e.origin[1] - e.half[1], e.origin[1] + e.half[1],
     e.origin[2] - e.half[2], e.origin[2] + e.half[2],
     e.origin[3] - e.half[3], e.origin[3] + e.half[3] >>

\* the table of the boundaries of the elements of a collection
BoundaryTable(elems) ==
  [k \in 1..(6 * Len(elems)) |-> Boundaries(elems[((k - 1) \div 6) + 1])[((k - 1) % 6) + 1]]

\* worldLoc[i] >= b[0+c*6] * wiggle && worldLoc[i] <= b[1+c*6] * wiggle, on each axis
InsideWiggled(worldLoc, b, c) ==
  \A a \in 0..2 :
    /\ worldLoc[a + 1] * WiggleDen >= b[2 * a + 1 + c * 6] * (WiggleDen + 1)
    /\ worldLoc[a + 1] * WiggleDen <= b[2 * a + 2 + c * 6] * (WiggleDen + 1)

\* the static variables of the queries before their first call
CstatStaticInit == [init |-> FALSE, first |-> TRUE, b |-> << >>]
TpcStaticInit == [init |-> FALSE, b |-> << >>]
OpDetStaticInit == [Loaded |-> FALSE, LowestID |-> << >>, NCryo |-> 0]

\* GeometryCore::FindCryostatAtPosition: the pairs (result, statics after)
FindCryostatAtPosition(cryos, st, worldLoc) ==
  LET n == Ncryostats(cryos)
      st1 == IF st.init THEN st
             ELSE [st EXCEPT !.init = TRUE, !.b = Zeros(6 * n)]
      st2 == IF st1.first
             THEN [st1 EXCEPT !.first = FALSE, !.b = BoundaryTable(cryos)]
             ELSE st1
      inb == { c \in 0..(n - 1) : c * 6 + 6 <= Len(st2.b) }
      hits == { c \in inb : InsideWiggled(worldLoc, st2.b, c) }
  IN  IF hits # {} THEN { [res |-> Value(<< Min(hits) >>), st |-> st2] }
      ELSE IF 6 * n > Len(st2.b)
      THEN { [res |-> r, st |-> st2] :
               r \in {Crash, Invalid(<< InvalidID >>)}
                     \cup { Value(<< c >>) : c \in (0..(n - 1)) \ inb } }
      ELSE { [res |-> Invalid(<< InvalidID >>), st |-> st2] }

\* CryostatGeo::PositionToTPC: the pairs (result, statics after)
PositionToTPC(cryo, st, worldLoc) ==
  LET n == NTPC(cryo)
      st1 == IF st.init THEN st
             ELSE [init |-> TRUE, b |-> Zeros(6 * n)]
      tab == BoundaryTable(cryo.tpcs)
      st2 == [st1 EXCEPT !.b = [k \in 1..Len(st1.b) |->
                                  IF k <= 6 * n THEN tab[k] ELSE st1.b[k]]]
      hits == { t \in 0..(n - 1) : InsideWiggled(worldLoc, st2.b, t) }
  IN  IF 6 * n > Len(st1.b)
      THEN { [res |-> r, st |-> st1] :
               r \in {Crash, Error("Geometry")}
                     \cup { Value(<< t >>) : t \in 0..(n - 1) } }
      ELSE IF hits # {} THEN { [res |-> Value(<< Min(hits) >>), st |-> st2] }
      ELSE { [res |-> Error("Geometry"), st |-> st2] }

\* CryostatGeo::FindTPCAtPosition: UINT_MAX where PositionToTPC finds no TPC
CryoFindTPCAtPosition(cryo, st, worldLoc) ==
  { IF o.res.kind = "error" THEN [o EXCEPT !.res = Invalid(<< InvalidID >>)] ELSE o :
      o \in PositionToTPC(cryo, st, worldLoc) }

\* GeometryCore::Cryostat(cryoid)
Cryostat(cryos, c) ==
  IF c < Ncryostats(cryos) THEN Value(cryos[c + 1].id) ELSE Error("GeometryCore")

\* FindTPCAtPosition declaring its result valid whatever was found
FindTPCAtPosition_AlwaysValid(cryos, cst, tst, worldLoc) ==
  UNION {
    IF fc.res.kind = "crash" THEN { [res |-> Crash, cst |-> fc.st, tst |-> tst] }
    ELSE IF fc.res.val[1] = InvalidID
      THEN { [res |-> Value(<< InvalidID, InvalidID >>), cst |-> fc.st, tst |-> tst] }
    ELSE { [res |-> CASE ft.res.kind = "crash" -> Crash
                      [] OTHER -> Value(<< fc.res.val[1], ft.res.val[1] >>),
            cst |-> fc.st, tst |-> ft.st] :
           ft \in CryoFindTPCAtPosition(cryos[fc.res.val[1] + 1], tst, worldLoc) }
    : fc \in FindCryostatAtPosition(cryos, cst, worldLoc) }

\* GeometryCore::FindTPCAtPosition: the triples (result, both statics after)
FindTPCAtPosition(cryos, cst, tst, worldLoc) ==
  UNION {
    IF fc.res.kind = "crash" THEN { [res |-> Crash, cst |-> fc.st, tst |-> tst] }
    ELSE IF fc.res.val[1] = InvalidID
      THEN { [res |-> Invalid(<< InvalidID, InvalidID >>), cst |-> fc.st, tst |-> tst] }
    ELSE { [res |-> CASE ft.res.kind = "crash" -> Crash
                      [] ft.res.kind = "invalid" -> Invalid(<< fc.res.val[1], InvalidID >>)
                      [] OTHER -> Value(<< fc.res.val[1], ft.res.val[1] >>),
            cst |-> fc.st, tst |-> ft.st] :
           ft \in CryoFindTPCAtPosition(cryos[fc.res.val[1] + 1], tst, worldLoc) }
    : fc \in FindCryostatAtPosition(cryos, cst, worldLoc) }

\* GeometryCore::OpDetFromCryo(o, c): the result and the statics after
OpDetFromCryo(cryos, st, o, c) ==
  LET n == Ncryostats(cryos)
      \* the fill of the static table; Cryostat(c) raises inside the loop
      raised == ~st.Loaded /\ n > 0 /\ c >= n
      st1 == IF st.Loaded THEN st
             ELSE [Loaded |-> TRUE, NCryo |-> n,
                   LowestID |-> IF c < n
                                THEN [k \in 1..(n + 1) |-> (k - 1) * NOpDet(cryos[c + 1])]
                                ELSE Zeros(n + 1)]
  IN  IF raised THEN [res |-> Error("GeometryCore"), st |-> st1]
      ELSE IF c >= st1.NCryo THEN [res |-> Error("OpDetCryoToOpID Error"), st |-> st1]
      ELSE IF c >= n THEN [res |-> Error("GeometryCore"), st |-> st1]
      ELSE IF o < NOpDet(cryos[c + 1])
        THEN [res |-> Value(<< st1.LowestID[c + 1] + o >>), st |-> st1]
      ELSE [res |-> Error("OpDetCryoToOpID Error"), st |-> st1]

\* the lowest optical detector number of each cryostat, and the total, as
\* GeometryCore::OpDetGeoFromOpDet fills its static table
RECURSIVE LowestIDs(_, _)
LowestIDs(cryos, n) ==
  IF n = 0 THEN << 0 >>
  ELSE LET prev == LowestIDs(cryos, n - 1)
       IN  Append(prev, prev[n] + NOpDet(cryos[n]))

\* GeometryCore::OpDetGeoFromOpDet(OpDet): the optical detector found, as the
\* pair (cryostat, optical detector in the cryostat), and the statics after
OpDetGeoFromOpDet(cryos, st, OpDet) ==
  LET st1 == IF st.Loaded THEN st
             ELSE [Loaded |-> TRUE, NCryo |-> Ncryostats(cryos),
                   LowestID |-> LowestIDs(cryos, Ncryostats(cryos))]
      found == { i \in 0..(st1.NCryo - 1) :
                   OpDet >= st1.LowestID[i + 1] /\ OpDet < st1.LowestID[i + 2] }
  IN  IF found = {}
      THEN [res |-> Error("OpID To OpDetCryo error"), st |-> st1]
      ELSE LET c == Min(found)
               o == OpDet - st1.LowestID[c + 1]
           IN  IF c < Ncryostats(cryos) /\ o < NOpDet(cryos[c + 1])
               THEN [res |-> Value(<< c, o >>), st |-> st1]
               ELSE [res |-> Crash, st |-> st1]

\* GeometryCore::ChannelToWire(channel)
ChannelToWire(cm, channel) == MapChannelToWire(cm, channel)

\* GeometryCore::PlaneWireToChannel(wireid)
PlaneWireToChannel(cm, wid) == MapPlaneWireToChannel(cm, wid)

-----------------------------------------------------------------------------
(* Intersection engine.  A point is a pair << x, y >>; a computed           *)
(* coordinate is a fraction << n, d >> with d > 0.  With integer end        *)
(* points a fraction differs from an integer by far more than the           *)
(* tolerance of coordIs, so the tolerant comparisons are the exact ones.    *)

Frac(n, d) == IF d < 0 THEN << -n, -d >> ELSE << n, d >>
Whole(k) == << k, 1 >>

\* coordIs.withinSorted(x, a, b)
withinSorted(x, a, b) ==
  LET lo == IF a <= b THEN a ELSE b
      hi == IF a <= b THEN b ELSE a
  IN  lo * x[2] <= x[1] /\ x[1] <= hi * x[2]

\* GeometryCore::IntersectLines; x, y are the values the output arguments
\* hold at the call
IntersectLines(A_start, A_end, B_start, B_end, x, y) ==
  LET denom == (A_start[1] - A_end[1]) * (B_start[2] - B_end[2])
               - (A_start[2] - A_end[2]) * (B_start[1] - B_end[1])
      A == A_start[1] * A_end[2] - A_start[2] * A_end[1]
      B == B_start[1] * B_end[2] - B_start[2] * B_end[1]
  IN  IF denom = 0 THEN [ret |-> FALSE, x |-> x, y |-> y]
      ELSE [ret |-> TRUE,
            x |-> Frac((B_start[1] - B_end[1]) * A - (A_start[1] - A_end[1]) * B, denom),
            y |-> Frac((B_start[2] - B_end[2]) * A - (A_start[2] - A_end[2]) * B, denom)]

\* GeometryCore::PointWithinSegments
PointWithinSegments(A_start, A_end, B_start, B_end, x, y) ==
  /\ withinSorted(x, A_start[1], A_end[1])
  /\ withinSorted(y, A_start[2], A_end[2])
  /\ withinSorted(x, B_start[1], B_end[1])
  /\ withinSorted(y, B_start[2], B_end[2])

\* GeometryCore::IntersectSegments
IntersectSegments(A_start, A_end, B_start, B_end, x, y) ==
  LET l == IntersectLines(A_start, A_end, B_start, B_end, x, y) IN
  IF l.ret THEN [ret |-> FALSE, x |-> l.x, y |-> l.y]
  ELSE [ret |-> PointWithinSegments(A_start, A_end, B_start, B_end, l.x, l.y),
        x |-> l.x, y |-> l.y]

-----------------------------------------------------------------------------
(* Identifiers (geo_types.h).  An ID of level n is the sequence of its n   *)
(* indices: cryostat, TPC, plane, wire                                     *)

\* the default constructors: CryostatID(), TPCID(), PlaneID(), WireID()
DefaultID(n) == [isValid |-> FALSE, idx |-> [k \in 1..n |-> InvalidID]]

\* the constructors from explicit indices: CryostatID(c), TPCID(c, t), ...
ExplicitID(idx) == [isValid |-> TRUE, idx |-> idx]

\* CryostatID::ThreeWayComparison(a, b)
ThreeWayComparison(a, b) == IF a = b THEN 0 ELSE IF a < b THEN -1 ELSE 1

\* CryostatID::cmp, TPCID::cmp, PlaneID::cmp, WireID::cmp: the parent's cmp
\* first, the last index when the parents are the same
RECURSIVE cmp(_, _, _)
cmp(a, b, n) ==
  IF n = 1 THEN ThreeWayComparison(a[1], b[1])
  ELSE LET cmp_res == cmp(a, b, n - 1) IN
       IF cmp_res = 0 THEN ThreeWayComparison(a[n], b[n]) ELSE cmp_res

\* operator== (validity is ignored)
RECURSIVE operatorEq(_, _, _)
operatorEq(a, b, n) ==
  IF n = 1 THEN a[1] = b[1] ELSE operatorEq(a, b, n - 1) /\ a[n] = b[n]

\* operator!= (validity is ignored)
RECURSIVE operatorNe(_, _, _)
operatorNe(a, b, n) ==
  IF n = 1 THEN a[1] # b[1] ELSE operatorNe(a, b, n - 1) \/ a[n] # b[n]

\* operator< ordering by the last index alone
operatorLess_LastIndex(a, b, n) == a[n] < b[n]

\* operator<: the order of the parents, the last index when they are the same
operatorLess(a, b, n) ==
  IF n = 1 THEN a[1] < b[1]
  ELSE LET cmp_res == cmp(a, b, n - 1) IN
       IF cmp_res = 0 THEN a[n] < b[n] ELSE cmp_res < 0

-----------------------------------------------------------------------------
(* Wires and their intersections *)

\* GeometryCore::HasWire(wireid): the indices of the ID are all in range
HasWire(cryos, wid) ==
  /\ wid[1] \in 0..(Len(cryos) - 1)
  /\ wid[2] \in 0..(Len(cryos[wid[1] + 1].tpcs) - 1)
  /\ wid[3] \in 0..(Len(cryos[wid[1] + 1].tpcs[wid[2] + 1].planes) - 1)
  /\ wid[4] \in 0..(Len(cryos[wid[1] + 1].tpcs[wid[2] + 1].planes[wid[3] + 1].wires) - 1)

\* GeometryCore::Wire(wireid)
Wire(cryos, wid) ==
  cryos[wid[1] + 1].tpcs[wid[2] + 1].planes[wid[3] + 1].wires[wid[4] + 1]

\* GeometryCore::WireEndPoints(wireid): { wire.GetStart(), wire.GetEnd() },
\* here the [1] and [2] components that WireIDsIntersect reads
WireEndPoints(cryos, wid) ==
  LET wire == Wire(cryos, wid) IN
  [start |-> << wire.origin[2] - wire.hl * wire.dir[1],
                wire.origin[3] - wire.hl * wire.dir[2] >>,
   end   |-> << wire.origin[2] + wire.hl * wire.dir[1],
                wire.origin[3] + wire.hl * wire.dir[2] >>]

\* WireIDIntersectionCheck taking wires of any two TPCs for comparable
WireIDIntersectionCheck_AnyTPC(cryos, wid1, wid2) ==
  /\ wid1[3] # wid2[3]
  /\ HasWire(cryos, wid1)
  /\ HasWire(cryos, wid2)

\* GeometryCore::WireIDIntersectionCheck(wid1, wid2): an error is logged
\* and false returned, nothing is thrown
WireIDIntersectionCheck(cryos, wid1, wid2) ==
  IF << wid1[1], wid1[2] >> # << wid2[1], wid2[2] >> THEN FALSE
  ELSE IF wid1[3] = wid2[3] THEN FALSE
  ELSE IF ~HasWire(cryos, wid1) THEN FALSE
  ELSE IF ~HasWire(cryos, wid2) THEN FALSE
  ELSE TRUE

\* std::numeric_limits<double>::infinity(), as a fraction
infinity == << 1, 0 >>

\* the geo::WireIDIntersection filled when no crossing point is defined
NoIntersection == [ret |-> FALSE, y |-> infinity, z |-> infinity, TPC |-> InvalidID]

\* WireIDsIntersect giving the wires' TPC also to a crossing outside the wires
WireIDsIntersect_KeepTPC(cryos, wid1, wid2) ==
  IF ~WireIDIntersectionCheck(cryos, wid1, wid2) THEN NoIntersection
  ELSE
    LET w1 == WireEndPoints(cryos, wid1)
        w2 == WireEndPoints(cryos, wid2)
        l == IntersectLines(w1.start, w1.end, w2.start, w2.end, Whole(0), Whole(0))
    IN  IF ~l.ret THEN NoIntersection
        ELSE [ret |-> PointWithinSegments(w1.start, w1.end, w2.start, w2.end, l.x, l.y),
              y |-> l.x, z |-> l.y, TPC |-> wid1[2]]

\* GeometryCore::WireIDsIntersect(wid1, wid2, widIntersect): the value
\* returned and the fields of widIntersect, all of them written on every path
WireIDsIntersect(cryos, wid1, wid2) ==
  IF ~WireIDIntersectionCheck(cryos, wid1, wid2) THEN NoIntersection
  ELSE
    LET w1 == WireEndPoints(cryos, wid1)
        w2 == WireEndPoints(cryos, wid2)
        l == IntersectLines(w1.start, w1.end, w2.start, w2.end, Whole(0), Whole(0))
    IN  IF ~l.ret THEN NoIntersection
        ELSE
          LET within == PointWithinSegments(w1.start, w1.end, w2.start, w2.end, l.x, l.y)
          IN  [ret |-> within, y |-> l.x, z |-> l.y,
               TPC |-> IF within THEN wid1[2] ELSE InvalidID]

\* GeometryCore::Nplanes(tpcid): 0 for a TPC that does not exist
Nplanes(cryos, tpcid) ==
  IF /\ tpcid[1] \in 0..(Len(cryos) - 1)
     /\ tpcid[2] \in 0..(Len(cryos[tpcid[1] + 1].tpcs) - 1)
  THEN Len(cryos[tpcid[1] + 1].tpcs[tpcid[2] + 1].planes)
  ELSE 0

\* GeometryCore::ThirdPlane(pid1, pid2): the planes of the TPC of pid1 whose
\* index is neither pid1.Plane nor pid2.Plane; the loop throws on the second
\* one it meets, and after the loop when it met none
ThirdPlane(cryos, pid1, pid2) ==
  LET nPlanes == Nplanes(cryos, pid1)
      targets == { iPlane \in 0..(nPlanes - 1) : iPlane # pid1[3] /\ iPlane # pid2[3] }
  IN  IF nPlanes # 3 THEN Error("GeometryCore")
      ELSE IF Cardinality(targets) > 1 THEN Error("GeometryCore")
      ELSE IF targets = {} THEN Error("GeometryCore")
      ELSE Value(<< pid1[1], pid1[2], CHOOSE iPlane \in targets : TRUE >>)

-----------------------------------------------------------------------------
(* ID iteration: an iterator of level n holds the ID it points to          *)

\* the number of elements below the element an ID names (the cryostats for
\* the empty ID)
NElements(cryos, id) ==
  CASE Len(id) = 0 -> Len(cryos)
    [] Len(id) = 1 -> Len(cryos[id[1] + 1].tpcs)
    [] Len(id) = 2 -> Len(cryos[id[1] + 1].tpcs[id[2] + 1].planes)
    [] Len(id) = 3 -> Len(cryos[id[1] + 1].tpcs[id[2] + 1].planes[id[3] + 1].wires)

\* begin past the first element of the first parent
IterBegin_FromOne(n) == [k \in 1..n |-> IF k = n THEN 1 ELSE 0]

\* begin: the first ID of the level
IterBegin(n) == [k \in 1..n |-> 0]

\* end: the cryostat index past the last cryostat, the other indices 0
IterEnd(cryos, n) == [k \in 1..n |-> IF k = 1 THEN Len(cryos) ELSE 0]

\* operator bool: the iterator points to an element
IterValid(cryos, id) == id[1] < Len(cryos)

\* operator++: the last index is incremented; when it passes the last
\* element of the parent it restarts from 0 and the parent ID is incremented
RECURSIVE IterNext(_, _)
IterNext(cryos, id) ==
  LET n == Len(id)
      parent == SubSeq(id, 1, n - 1)
  IN  IF n = 1 THEN << id[1] + 1 >>
      ELSE IF id[n] + 1 < NElements(cryos, parent) THEN [id EXCEPT ![n] = @ + 1]
      ELSE Append(IterNext(cryos, parent), 0)

-----------------------------------------------------------------------------
(* Inputs of the queries *)

\* world positions probed: inside and outside the elements of the detectors
Points ==
  { << -40, 0, 0 >>, << 50, 0, 0 >>, << 10, 0, 0 >>, << 0, 0, 0 >> }

\* indices of cryostats and optical detectors asked for
MaxIndex == 2
Indices == 0..MaxIndex

\* channels asked for
MaxChannel == 6
Channels == 0..MaxChannel

\* WireIDs asked for: those of the loaded tree and one of no wire
WireIDsAsked == WireIDsOf(fCryostats) \cup { << 0, 0, 0, 2 >> }

Alive == lastResult.kind # "crash"

\* the threads that call the queries
Threads == {1, 2}

\* a thread outside any query, the reload outside any load
IdleThread == [pc |-> "idle", op |-> "", arg |-> << >>]
IdleReload == [pc |-> "idle", file |-> "", initThrows |-> FALSE]

-----------------------------------------------------------------------------
(* The program, one thread: construction, reload at the beginning of a     *)
(* run, queries                                                            *)

\* Geometry::Geometry: the geometry is loaded from the configured file
Construct(names) ==
  \E name \in names, force \in BOOLEAN, installs \in BOOLEAN :
    \E L \in LoadNewGeometry(Unloaded, name \o ".gdml", FALSE, installs) :
      /\ L.state = "ok"
      /\ fCryostats = L.cryos
      /\ fAuxDets = L.auxdets
      /\ fChannelMapAlg = L.chanMap
      /\ initArg = L.initArg
      /\ fGDMLfile = L.gdml
      /\ loadState = L.state
      /\ fDetectorName = name
      /\ fForceUseFCLOnly = force
      /\ cstatStatic = CstatStaticInit
      /\ tpcStatic = TpcStaticInit
      /\ opDetStatic = OpDetStaticInit
      /\ loadCount = 1
      /\ lastOp = [op |-> "Geometry", arg |-> << name >>]
      /\ lastResult = NoResult
      /\ thr = [i \in Threads |-> IdleThread]
      /\ rl = IdleReload

\* the detectors of the configurations the runs are taken with
Init == Construct({"deta", "detb"})

\* preBeginRun keeping the configured name whatever the run names
NewDetectorName_Kept(current, rd) == current

\* the detector name preBeginRun loads by: the one of the run, or the current
\* one when the run holds the name of the unset detector
NewDetectorName(current, rd) ==
  IF rd = "nodetectorname" THEN current ELSE rd

\* Geometry::preBeginRun(run); rd is the detector name of the first RunData
\* object of the run, "none" when the run holds no such object; helpers
\* holds whether the ExptGeoHelperInterface service configured may apply a
\* channel mapping, and whether it may apply none
BeginRun(helpers) ==
  /\ Alive
  /\ loadState = "ok"
  /\ \E rd \in RunNames \cup {"none"}, initThrows \in BOOLEAN, installs \in helpers :
       /\ lastOp' = [op |-> "preBeginRun", arg |-> << rd >>]
       /\ IF fForceUseFCLOnly \/ rd = "none" \/ rd = fDetectorName
          THEN /\ lastResult' = NoResult
               /\ UNCHANGED << fCryostats, fAuxDets, fChannelMapAlg, fDetectorName,
                               fGDMLfile, initArg, loadState, loadCount >>
          ELSE LET newName == NewDetectorName(fDetectorName, rd) IN
               /\ loadCount < MaxLoads
               /\ fDetectorName' = newName
               /\ loadCount' = loadCount + 1
               /\ \E L \in LoadNewGeometry(CurrentGeo, newName \o ".gdml", initThrows, installs) :
                    /\ fCryostats' = L.cryos
                    /\ fAuxDets' = L.auxdets
                    /\ fChannelMapAlg' = L.chanMap
                    /\ initArg' = L.initArg
                    /\ fGDMLfile' = L.gdml
                    /\ loadState' = L.state
                    /\ lastResult' = IF L.state = "ok" THEN NoResult ELSE Error(L.state)
  /\ UNCHANGED << fForceUseFCLOnly, cstatStatic, tpcStatic, opDetStatic, thr, rl >>

\* preBeginRun with the StandardGeometryHelper, whose
\* doConfigureChannelMapAlg applies a channel mapping at every call
preBeginRun == BeginRun({TRUE})

\* preBeginRun with any implementation of ExptGeoHelperInterface
preBeginRunAnyHelper == BeginRun(BOOLEAN)

geoVars == << fCryostats, fAuxDets, fChannelMapAlg, fDetectorName, fGDMLfile,
              fForceUseFCLOnly, initArg, loadState, loadCount >>

CallFindCryostatAtPosition ==
  /\ Alive
  /\ \E worldLoc \in Points :
       \E o \in FindCryostatAtPosition(fCryostats, cstatStatic, worldLoc) :
         /\ lastOp' = [op |-> "FindCryostatAtPosition", arg |-> worldLoc]
         /\ lastResult' = o.res
         /\ cstatStatic' = o.st
  /\ UNCHANGED << geoVars, tpcStatic, opDetStatic, thr, rl >>

CallFindTPCAtPosition ==
  /\ Alive
  /\ \E worldLoc \in Points :
       \E o \in FindTPCAtPosition(fCryostats, cstatStatic, tpcStatic, worldLoc) :
         /\ lastOp' = [op |-> "FindTPCAtPosition", arg |-> worldLoc]
         /\ lastResult' = o.res
         /\ cstatStatic' = o.cst
         /\ tpcStatic' = o.tst
  /\ UNCHANGED << geoVars, opDetStatic, thr, rl >>

CallOpDetFromCryo ==
  /\ Alive
  /\ \E o \in Indices, c \in Indices :
       LET r == OpDetFromCryo(fCryostats, opDetStatic, o, c) IN
         /\ lastOp' = [op |-> "OpDetFromCryo", arg |-> << o, c >>]
         /\ lastResult' = r.res
         /\ opDetStatic' = r.st
  /\ UNCHANGED << geoVars, cstatStatic, tpcStatic, thr, rl >>

CallCryostat ==
  /\ Alive
  /\ \E c \in Indices :
       /\ lastOp' = [op |-> "Cryostat", arg |-> << c >>]
       /\ lastResult' = Cryostat(fCryostats, c)
  /\ UNCHANGED << geoVars, cstatStatic, tpcStatic, opDetStatic, thr, rl >>

CallPlaneWireToChannel ==
  /\ Alive
  /\ \E wid \in WireIDsAsked :
       LET ch == PlaneWireToChannel(fChannelMapAlg, wid) IN
         /\ lastOp' = [op |-> "PlaneWireToChannel", arg |-> wid]
         /\ lastResult' = IF ch = InvalidID THEN Invalid(<< ch >>) ELSE Value(<< ch >>)
  /\ UNCHANGED << geoVars, cstatStatic, tpcStatic, opDetStatic, thr, rl >>

CallChannelToWire ==
  /\ Alive
  /\ \E channel \in Channels :
       /\ lastOp' = [op |-> "ChannelToWire", arg |-> << channel >>]
       /\ lastResult' = Value(ChannelToWire(fChannelMapAlg, channel))
  /\ UNCHANGED << geoVars, cstatStatic, tpcStatic, opDetStatic, thr, rl >>

Next ==
  \/ preBeginRun
  \/ CallFindCryostatAtPosition
  \/ CallFindTPCAtPosition
  \/ CallOpDetFromCryo
  \/ CallCryostat
  \/ CallPlaneWireToChannel
  \/ CallChannelToWire

Spec == Init /\ [][Next]_vars

-----------------------------------------------------------------------------
(* A reload taken step by step, queries of the element tree, of the channel *)
(* map and of a spatial cache being answered between its steps             *)

\* Geometry::preBeginRun up to the search of the file in LoadNewGeometry
preBeginRunEnter ==
  /\ Alive /\ rl.pc = "idle"
  /\ loadState = "ok"
  /\ \E rd \in RunNames \cup {"none"}, initThrows \in BOOLEAN :
       /\ lastOp' = [op |-> "preBeginRun", arg |-> << rd >>]
       /\ IF fForceUseFCLOnly \/ rd = "none" \/ rd = fDetectorName
          THEN /\ lastResult' = NoResult
               /\ UNCHANGED << fDetectorName, loadState, loadCount, rl >>
          ELSE LET newName == NewDetectorName(fDetectorName, rd)
                   file == newName \o ".gdml"
               IN  /\ loadCount < MaxLoads
                   /\ fDetectorName' = newName
                   /\ loadCount' = loadCount + 1
                   /\ IF file \in Files
                      THEN /\ rl' = [pc |-> "clear", file |-> file,
                                     initThrows |-> initThrows]
                           /\ lastResult' = NoResult
                           /\ UNCHANGED loadState
                      ELSE /\ loadState' = "nofile"
                           /\ lastResult' = Error("nofile")
                           /\ UNCHANGED rl
  /\ UNCHANGED << fCryostats, fAuxDets, fChannelMapAlg, fGDMLfile, initArg,
                  fForceUseFCLOnly, cstatStatic, tpcStatic, opDetStatic, thr >>

\* GeometryCore::LoadGeometryFile: ClearGeometry()
LoadStepClear ==
  /\ rl.pc = "clear"
  /\ fCryostats' = ClearGeometry(CurrentGeo).cryos
  /\ fAuxDets' = ClearGeometry(CurrentGeo).auxdets
  /\ rl' = [rl EXCEPT !.pc = "build"]
  /\ UNCHANGED << fChannelMapAlg, fDetectorName, fGDMLfile, fForceUseFCLOnly,
                  initArg, loadState, loadCount, cstatStatic, tpcStatic,
                  opDetStatic, lastOp, lastResult, thr >>

\* GeometryCore::LoadGeometryFile: FindCryostat, FindAuxDet, the file names
LoadStepBuild ==
  /\ rl.pc = "build"
  /\ \E b \in LoadGeometryFile(rl.file) :
       /\ fCryostats' = b.cryos
       /\ fAuxDets' = b.auxdets
       /\ IF b.ok
          THEN /\ fGDMLfile' = rl.file
               /\ rl' = [rl EXCEPT !.pc = "sort"]
               /\ UNCHANGED << loadState, lastResult >>
          ELSE /\ loadState' = "builder"
               /\ lastResult' = Error("builder")
               /\ rl' = IdleReload
               /\ UNCHANGED fGDMLfile
  /\ UNCHANGED << fChannelMapAlg, fDetectorName, fForceUseFCLOnly, initArg,
                  loadCount, cstatStatic, tpcStatic, opDetStatic, lastOp, thr >>

\* GeometryCore::ApplyChannelMap: SortGeometry and UpdateAfterSorting
LoadStepSort ==
  /\ rl.pc = "sort"
  /\ LET numbered == UpdateAfterSorting(
                       SortGeometry([cryos |-> fCryostats, auxdets |-> fAuxDets]))
     IN  /\ fCryostats' = numbered.cryos
         /\ fAuxDets' = numbered.auxdets
  /\ rl' = [rl EXCEPT !.pc = "init"]
  /\ UNCHANGED << fChannelMapAlg, fDetectorName, fGDMLfile, fForceUseFCLOnly,
                  initArg, loadState, loadCount, cstatStatic, tpcStatic,
                  opDetStatic, lastOp, lastResult, thr >>

\* GeometryCore::ApplyChannelMap: Initialize and the new channel map installed
LoadStepInitialize ==
  /\ rl.pc = "init"
  /\ initArg' = fCryostats
  /\ IF rl.initThrows
     THEN /\ loadState' = "chanmap"
          /\ lastResult' = Error("chanmap")
          /\ UNCHANGED fChannelMapAlg
     ELSE /\ fChannelMapAlg' = Initialize(fCryostats)
          /\ UNCHANGED << loadState, lastResult >>
  /\ rl' = IdleReload
  /\ UNCHANGED << fCryostats, fAuxDets, fDetectorName, fGDMLfile,
                  fForceUseFCLOnly, loadCount, cstatStatic, tpcStatic,
                  opDetStatic, lastOp, thr >>

NextReload ==
  \/ preBeginRunEnter
  \/ LoadStepClear
  \/ LoadStepBuild
  \/ LoadStepSort
  \/ LoadStepInitialize
  \/ CallFindCryostatAtPosition
  \/ CallCryostat
  \/ CallPlaneWireToChannel

SpecReload == Init /\ [][NextReload]_vars

-----------------------------------------------------------------------------
(* Queries taken step by step by several threads after the load; each      *)
(* step is what one thread does between two accesses to the function's     *)
(* static variables                                                        *)

\* thread i returns from its query with result r
Return(i, r) ==
  /\ lastOp' = [op |-> thr[i].op, arg |-> thr[i].arg]
  /\ lastResult' = r
  /\ thr' = [thr EXCEPT ![i] = IdleThread]

\* FindCryostatAtPosition: the statics are initialized, firstCalculation is
\* tested and set to false
FindCryostatEnter(i) ==
  /\ Alive /\ thr[i].pc = "idle"
  /\ \E worldLoc \in Points :
       LET n == Ncryostats(fCryostats)
           st1 == IF cstatStatic.init THEN cstatStatic
                  ELSE [cstatStatic EXCEPT !.init = TRUE, !.b = Zeros(6 * n)]
       IN  /\ cstatStatic' = [st1 EXCEPT !.first = FALSE]
           /\ thr' = [thr EXCEPT ![i] =
                        [pc |-> IF st1.first THEN "fill" ELSE "scan",
                         op |-> "FindCryostatAtPosition", arg |-> worldLoc]]
  /\ UNCHANGED << geoVars, tpcStatic, opDetStatic, lastOp, lastResult, rl >>

\* FindCryostatAtPosition: the loop that fills cstatBoundaries
FindCryostatFill(i) ==
  /\ thr[i].op = "FindCryostatAtPosition" /\ thr[i].pc = "fill"
  /\ cstatStatic' = [cstatStatic EXCEPT !.b = BoundaryTable(fCryostats)]
  /\ thr' = [thr EXCEPT ![i].pc = "scan"]
  /\ UNCHANGED << geoVars, tpcStatic, opDetStatic, lastOp, lastResult, rl >>

\* FindCryostatAtPosition: the loop that locates the cryostat
FindCryostatScan(i) ==
  /\ thr[i].op = "FindCryostatAtPosition" /\ thr[i].pc = "scan"
  /\ \E o \in FindCryostatAtPosition(fCryostats, cstatStatic, thr[i].arg) :
       /\ Return(i, o.res)
       /\ cstatStatic' = o.st
  /\ UNCHANGED << geoVars, tpcStatic, opDetStatic, rl >>

\* OpDetFromCryo: Loaded is tested and set to true
OpDetFromCryoEnter(i) ==
  /\ Alive /\ thr[i].pc = "idle"
  /\ \E o \in Indices, c \in Indices :
       thr' = [thr EXCEPT ![i] =
                 [pc |-> IF opDetStatic.Loaded THEN "lookup" ELSE "fill",
                  op |-> "OpDetFromCryo", arg |-> << o, c >>]]
  /\ opDetStatic' = [opDetStatic EXCEPT !.Loaded = TRUE]
  /\ UNCHANGED << geoVars, cstatStatic, tpcStatic, lastOp, lastResult, rl >>

\* OpDetFromCryo: NCryo and LowestID are filled; Cryostat(c) may raise
OpDetFromCryoFill(i) ==
  /\ thr[i].op = "OpDetFromCryo" /\ thr[i].pc = "fill"
  /\ LET r == OpDetFromCryo(fCryostats, OpDetStaticInit, thr[i].arg[1], thr[i].arg[2])
     IN  /\ opDetStatic' = r.st
         /\ IF r.res = Error("GeometryCore")
            THEN Return(i, r.res)
            ELSE /\ thr' = [thr EXCEPT ![i].pc = "lookup"]
                 /\ UNCHANGED << lastOp, lastResult >>
  /\ UNCHANGED << geoVars, cstatStatic, tpcStatic, rl >>

\* OpDetFromCryo: the range check and the look-up in LowestID
OpDetFromCryoLookup(i) ==
  /\ thr[i].op = "OpDetFromCryo" /\ thr[i].pc = "lookup"
  /\ Return(i, OpDetFromCryo(fCryostats, opDetStatic, thr[i].arg[1], thr[i].arg[2]).res)
  /\ UNCHANGED << geoVars, cstatStatic, tpcStatic, opDetStatic, rl >>

NextThreads ==
  \E i \in Threads :
    \/ FindCryostatEnter(i)
    \/ FindCryostatFill(i)
    \/ FindCryostatScan(i)
    \/ OpDetFromCryoEnter(i)
    \/ OpDetFromCryoFill(i)
    \/ OpDetFromCryoLookup(i)

SpecThreads == Init /\ [][NextThreads]_vars

-----------------------------------------------------------------------------
(* The service configured with any channel mapping helper: reloads and the *)
(* queries answered by the channel mapping                                 *)

\* Geometry::getSorter(owned, channelMap): the sorter it returns, "none" for
\* the null pointer; sorterParameters: a Sorter configuration is present;
\* declines: ChannelMapAlg::Sorter() raises NoSorter
getSorter(sorterParameters, channelMap, declines) ==
  IF sorterParameters THEN "Sorter"
  ELSE IF channelMap THEN (IF declines THEN "none" ELSE "ChannelMapSorter")
  ELSE "none"

\* GeometryCore::ApplyChannelMap(pChannelMap, sorter): the sorter handed to
\* SortGeometry
ApplyChannelMapSorter(sorter) == Value(<< sorter >>)

\* GeometryCore::ApplyChannelMap(pChannelMap): SortGeometry(pChannelMap->Sorter())
ApplyChannelMapOwnSorter(declines) ==
  IF declines THEN Error("NoSorter") ELSE Value(<< "ChannelMapSorter" >>)

\* Geometry::InitializeChannelMap: the sorter the geometry of the load is
\* sorted with; channelMapParameters: a ChannelMapping configuration is
\* present, otherwise the channel mapping comes from the helper service
InitializeChannelMapSorter(channelMapParameters, sorterParameters, declines) ==
  IF channelMapParameters
  THEN ApplyChannelMapSorter(getSorter(sorterParameters, TRUE, declines))
  ELSE ApplyChannelMapOwnSorter(declines)

\* a load under one of the configurations of ChannelMapping and Sorter
CallInitializeChannelMap ==
  /\ Alive
  /\ \E channelMapParameters \in BOOLEAN, sorterParameters \in BOOLEAN,
        declines \in BOOLEAN :
       /\ lastOp' = [op |-> "InitializeChannelMap",
                     arg |-> << channelMapParameters, sorterParameters, declines >>]
       /\ lastResult' =
            InitializeChannelMapSorter(channelMapParameters, sorterParameters, declines)
  /\ UNCHANGED << geoVars, cstatStatic, tpcStatic, opDetStatic, thr, rl >>

NextHelper ==
  \/ preBeginRunAnyHelper
  \/ CallPlaneWireToChannel
  \/ CallChannelToWire
  \/ CallInitializeChannelMap

SpecHelper == Init /\ [][NextHelper]_vars

\* the runs of a job, with a query between them
NextRuns ==
  \/ preBeginRun
  \/ CallCryostat

SpecRuns == Init /\ [][NextRuns]_vars

-----------------------------------------------------------------------------
(* The operations on the identifiers, called on IDs drawn from small sets  *)

\* the indices the IDs are built from, and the IDs of a level
IndexValues == {0, 1}
IDsOfLevel(n) == [1..n -> IndexValues]
Levels == 1..4

\* the WireIDs compared; the IDs of the other levels compared are their parents
WireIDsCompared ==
  { << 0, 0, 0, 0 >>, << 0, 0, 0, 1 >>, << 0, 0, 1, 0 >>, << 0, 1, 0, 0 >>,
    << 1, 0, 0, 0 >>, << 0, 1, 1, 0 >>, << 1, 0, 0, 1 >>, << 1, 1, 1, 1 >> }
IDsCompared(n) == { SubSeq(w, 1, n) : w \in WireIDsCompared }

\* every comparison of two IDs a, b of the same level
CallCompareIDs ==
  /\ \E n \in Levels : \E a \in IDsCompared(n), b \in IDsCompared(n) :
       /\ lastOp' = [op |-> "CompareIDs", arg |-> << a, b >>]
       /\ lastResult' = Value([lt |-> operatorLess(a, b, n),
                               eq |-> operatorEq(a, b, n),
                               ne |-> operatorNe(a, b, n),
                               gt |-> operatorLess(b, a, n),
                               cmp |-> cmp(a, b, n)])
  /\ UNCHANGED << geoVars, cstatStatic, tpcStatic, opDetStatic, thr, rl >>

\* the construction of an ID of any level, by default or from indices
CallConstructID ==
  /\ \E n \in Levels :
       \/ /\ lastOp' = [op |-> "ConstructID", arg |-> << "default", n >>]
          /\ lastResult' = Value(DefaultID(n))
       \/ \E idx \in IDsOfLevel(n) :
            /\ lastOp' = [op |-> "ConstructID", arg |-> << "explicit", idx >>]
            /\ lastResult' = Value(ExplicitID(idx))
  /\ UNCHANGED << geoVars, cstatStatic, tpcStatic, opDetStatic, thr, rl >>

\* GeometryCore::Cryostat(cryoid) on a CryostatID just constructed
CallCryostatOfID ==
  /\ Alive
  /\ \E cryoid \in {DefaultID(1)} \cup { ExplicitID(idx) : idx \in IDsOfLevel(1) } :
       /\ lastOp' = [op |-> "CryostatOfID", arg |-> cryoid]
       /\ lastResult' = Cryostat(fCryostats, cryoid.idx[1])
  /\ UNCHANGED << geoVars, cstatStatic, tpcStatic, opDetStatic, thr, rl >>

NextIDs ==
  \/ CallCompareIDs
  \/ CallConstructID
  \/ CallCryostatOfID
  \/ CallFindTPCAtPosition

SpecIDs == Init /\ [][NextIDs]_vars

-----------------------------------------------------------------------------
(* The queries that read the loaded geometry only, or nothing at all,      *)
(* called with arguments drawn from small sets                             *)

\* end points of the segments, and the values held by the output arguments
Grid == {0, 1, 2}
GridPoints == Grid \X Grid
StartPointsA == { << 0, 0 >>, << 1, 0 >>, << 1, 1 >> }
StartPointsB == { << 0, 1 >>, << 1, 1 >> }
EndPointsB == { << 0, 0 >>, << 2, 0 >> }
PriorOutputs == { << Whole(1), Whole(1) >>, << Whole(5), Whole(5) >> }

CallIntersectSegments ==
  /\ \E A_start \in StartPointsA, A_end \in GridPoints,
        B_start \in StartPointsB, B_end \in EndPointsB, out \in PriorOutputs :
       LET r == IntersectSegments(A_start, A_end, B_start, B_end, out[1], out[2]) IN
         /\ lastOp' = [op |-> "IntersectSegments",
                       arg |-> << A_start, A_end, B_start, B_end, out >>]
         /\ lastResult' = IF r.ret THEN Value(<< r.x, r.y >>)
                          ELSE Invalid(<< r.x, r.y >>)
  /\ UNCHANGED << geoVars, cstatStatic, tpcStatic, opDetStatic, thr, rl >>

\* GeometryCore::WireIDsIntersect on two of the WireIDs asked for
CallWireIDsIntersect ==
  /\ Alive
  /\ \E wid1 \in WireIDsAsked, wid2 \in WireIDsAsked :
       LET r == WireIDsIntersect(fCryostats, wid1, wid2) IN
         /\ lastOp' = [op |-> "WireIDsIntersect", arg |-> << wid1, wid2 >>]
         /\ lastResult' = IF r.ret THEN Value(r) ELSE Invalid(r)
  /\ UNCHANGED << geoVars, cstatStatic, tpcStatic, opDetStatic, thr, rl >>

\* node trees for the builder: under the top node a chain of n nested
\* volumes, holding at its bottom a cryostat with a TPC, an auxiliary
\* detector, or nothing
RECURSIVE ChainTo(_, _)
ChainTo(n, leaf) ==
  IF n = 0 THEN leaf
  ELSE << Node("volEnclosure", <<0, 0, 0>>, <<0, 0, 0>>, ChainTo(n - 1, leaf)) >>

Leaves ==
  { << Node("volCryostat", <<60, 0, 0>>, <<5, 10, 10>>,
          << TPCNode("volTPC", <<0, 0, 0>>, <<4, 10, 10>>,
                     << PlaneNode("p0", 3, OneWire) >>) >>) >>,
    << Node("volAuxDet", <<0, 50, 0>>, <<1, 1, 1>>, << >>) >>,
    << >> }

ChainLengths == (MaxDepth - 3)..(MaxDepth + 1)

BuilderTrees ==
  { TreeOf(file) : file \in Files }
    \cup { Node("volWorld", <<0, 0, 0>>, <<100, 100, 100>>, ChainTo(n, leaf)) :
             n \in ChainLengths, leaf \in Leaves }

\* FindCryostat(path, 0) and FindAuxDet(path, 0) on a tree: what they raise
\* and the highest entry of the path they have read or written
CallFindElements ==
  /\ Alive
  /\ \E top \in BuilderTrees : \E b \in FindElements(top) :
       /\ lastOp' = [op |-> "FindElements", arg |-> top]
       /\ lastResult' = IF b.ok THEN Value([top |-> b.top])
                        ELSE [Error(b.err) EXCEPT !.val = [top |-> b.top]]
  /\ UNCHANGED << geoVars, cstatStatic, tpcStatic, opDetStatic, thr, rl >>

\* begin_cryostat_id(), begin_TPC_id(), begin_plane_id(), begin_wire_id():
\* a new iteration; the result holds the iterator and the IDs it has yielded
CallIterBegin ==
  /\ Alive
  /\ \E n \in Levels :
       /\ lastOp' = [op |-> "begin", arg |-> << n >>]
       /\ lastResult' = Value([at |-> IterBegin(n), seen |-> << >>])
  /\ UNCHANGED << geoVars, cstatStatic, tpcStatic, opDetStatic, thr, rl >>

\* one turn of the loop: the ID under the iterator is read, the iterator
\* is incremented
CallIterNext ==
  /\ Alive
  /\ lastOp.op \in {"begin", "operator++"}
  /\ IterValid(fCryostats, lastResult.val.at)
  /\ lastOp' = [op |-> "operator++", arg |-> lastOp.arg]
  /\ lastResult' = Value([at |-> IterNext(fCryostats, lastResult.val.at),
                          seen |-> Append(lastResult.val.seen, lastResult.val.at)])
  /\ UNCHANGED << geoVars, cstatStatic, tpcStatic, opDetStatic, thr, rl >>

\* PlaneIDs asked for: those of the planes of the asked wires, and one of
\* no plane
PlaneIDsAsked == { SubSeq(wid, 1, 3) : wid \in WireIDsAsked } \cup { << 0, 0, 3 >> }

\* GeometryCore::ThirdPlane on two of the PlaneIDs asked for
CallThirdPlane ==
  /\ Alive
  /\ \E pid1 \in PlaneIDsAsked, pid2 \in PlaneIDsAsked :
       /\ lastOp' = [op |-> "ThirdPlane", arg |-> << pid1, pid2 >>]
       /\ lastResult' = ThirdPlane(fCryostats, pid1, pid2)
  /\ UNCHANGED << geoVars, cstatStatic, tpcStatic, opDetStatic, thr, rl >>

NextQueries ==
  \/ CallIntersectSegments
  \/ CallWireIDsIntersect
  \/ CallIterBegin
  \/ CallIterNext
  \/ CallFindElements
  \/ CallThirdPlane

\* the geometry is loaded from a file of a detector with crossing wires
InitQueries == Construct({"deta", "detc"})

SpecQueries == InitQueries /\ [][NextQueries]_vars

-----------------------------------------------------------------------------
(* The construction and the sort of single elements, on nodes and origins  *)
(* drawn from small sets                                                   *)

\* the drift coordinates of the TPC origins and of the plane origins
DriftCoordinates == {-200, -199, -1, 0, 1, 199, 200}

\* the cryostat built from a node holding one TPC with origin x, whose one
\* plane has origin px
CryostatOfOneTPC(x, px) ==
  CryostatGeo(
    Node("volCryostat", <<0, 0, 0>>, <<300, 10, 10>>, <<
      TPCNode("volTPC", <<x, 0, 0>>, <<8, 10, 10>>,
        << PlaneNode("p0", px - x, OneWire) >>) >>),
    <<0, 0, 0>>, 1, 1).cryo

\* CryostatGeo::SortSubVolumes and CryostatGeo::UpdateAfterSorting on such a
\* cryostat: the drift directions its TPCs are left with
CallSortSubVolumes ==
  /\ Alive
  /\ \E x \in DriftCoordinates, px \in DriftCoordinates :
       LET c == CryoUpdateAfterSorting(SortSubVolumes(CryostatOfOneTPC(x, px)), << 0 >>)
       IN  /\ lastOp' = [op |-> "SortSubVolumes", arg |-> << x, px >>]
           /\ lastResult' = Value([t \in 1..NTPC(c) |-> c.tpcs[t].drift])
  /\ UNCHANGED << geoVars, cstatStatic, tpcStatic, opDetStatic, thr, rl >>

\* the cryostat nodes right below the top nodes of the files
CryostatNodes ==
  UNION { { TreeOf(f).kids[i] : i \in { j \in DOMAIN TreeOf(f).kids :
                                          IsCryostatName(TreeOf(f).kids[j].name) } } :
          f \in Files }

\* CryostatGeo::CryostatGeo(path, depth) on a node whose GetVolume() returns
\* a volume (vc) or the null pointer.  The throw sits inside if (vc) and is
\* never reached: with no volume fVolume stays null, and fVolume->GetName()
\* and the daughter counts of FindTPC read through the null pointer
CryostatGeoOfVolume(node, vc, world, depth, k) ==
  LET c == CryostatGeo(node, world, depth, k)
      built == IF c.ok THEN Value(<< node.name, Len(c.cryo.tpcs), Len(c.cryo.opdets) >>)
               ELSE Error(c.err)
  IN  IF vc THEN { built } ELSE { Crash, built }

\* the construction of a cryostat from a node of the tree
CallCryostatGeo ==
  /\ Alive
  /\ \E node \in CryostatNodes, vc \in BOOLEAN :
       \E r \in CryostatGeoOfVolume(node, vc, node.off, 1, 1) :
         /\ lastOp' = [op |-> "CryostatGeo", arg |-> << node.off, vc >>]
         /\ lastResult' = r
  /\ UNCHANGED << geoVars, cstatStatic, tpcStatic, opDetStatic, thr, rl >>

\* TGeoNode::GetNdaughters and GetDaughter: the nodes right below a node
Daughters(n) ==
  IF "wires" \in DOMAIN n THEN n.wires
  ELSE IF "planes" \in DOMAIN n /\ n.planes # << >> THEN n.planes
  ELSE IF "kids" \in DOMAIN n THEN n.kids
  ELSE << >>

GetNdaughters(n) == Len(Daughters(n))

\* a node below start is named by the daughter indices (from 0) leading to it
RECURSIVE NodeAt(_, _)
NodeAt(start, pos) ==
  IF pos = << >> THEN start
  ELSE NodeAt(Daughters(start)[pos[1] + 1], SubSeq(pos, 2, Len(pos)))

\* ROOTGeoNodeForwardIterator::reach_deepest_descendant; current_path is a
\* sequence of NodeInfo_t, [self, sibling]
RECURSIVE reach_deepest_descendant(_, _)
reach_deepest_descendant(start, current_path) ==
  LET descendent == current_path[Len(current_path)].self IN
  IF GetNdaughters(NodeAt(start, descendent)) > 0
  THEN reach_deepest_descendant(start,
         Append(current_path, [self |-> Append(descendent, 0), sibling |-> 0]))
  ELSE current_path

\* ROOTGeoNodeForwardIterator::init(start_node)
NodeIteratorInit(start) ==
  reach_deepest_descendant(start, << [self |-> << >>, sibling |-> 0] >>)

\* operator++ moving to the next sibling without descending into it
NodeIteratorIncrement_NoDescent(start, current_path) ==
  IF current_path = << >> THEN current_path
  ELSE IF Len(current_path) = 1 THEN << >>
  ELSE LET n == Len(current_path)
           parent == current_path[n - 1]
           sibling == current_path[n].sibling + 1
       IN  IF sibling < GetNdaughters(NodeAt(start, parent.self))
           THEN Append(SubSeq(current_path, 1, n - 1),
                       [self |-> Append(parent.self, sibling), sibling |-> sibling])
           ELSE SubSeq(current_path, 1, n - 1)

\* ROOTGeoNodeForwardIterator::operator++
NodeIteratorIncrement(start, current_path) ==
  IF current_path = << >> THEN current_path
  ELSE IF Len(current_path) = 1 THEN << >>
  ELSE LET n == Len(current_path)
           parent == current_path[n - 1]
           sibling == current_path[n].sibling + 1
       IN  IF sibling < GetNdaughters(NodeAt(start, parent.self))
           THEN reach_deepest_descendant(start,
                  Append(SubSeq(current_path, 1, n - 1),
                         [self |-> Append(parent.self, sibling), sibling |-> sibling]))
           ELSE SubSeq(current_path, 1, n - 1)

\* the nodes of the subtree of a node, each by its daughter indices
RECURSIVE NodesBelow(_, _)
NodesBelow(start, pos) ==
  {pos} \cup UNION { NodesBelow(start, Append(pos, i)) :
                       i \in 0..(GetNdaughters(NodeAt(start, pos)) - 1) }

\* the nodes an iteration is started at: the top node of a file and the
\* nodes right below it
StartNodes ==
  UNION { { [file |-> f, pos |-> << >>] }
          \cup { [file |-> f, pos |-> << i >>] :
                   i \in 0..(GetNdaughters(TreeOf(f)) - 1) } : f \in Files }

StartNode(s) == NodeAt(TreeOf(s.file), s.pos)

\* the node under the iterator, added to the nodes visited
Visit(visited, current_path) ==
  IF current_path = << >> THEN visited
  ELSE Append(visited, current_path[Len(current_path)].self)

\* ROOTGeoNodeForwardIterator iter(start_node)
CallNodeIteratorInit ==
  /\ Alive
  /\ \E s \in StartNodes :
       LET path == NodeIteratorInit(StartNode(s)) IN
       /\ lastOp' = [op |-> "ROOTGeoNodeForwardIterator",
                     arg |-> [start |-> s, increments |-> 0,
                              visited |-> Visit(<< >>, path)]]
       /\ lastResult' = Value(path)
  /\ UNCHANGED << geoVars, cstatStatic, tpcStatic, opDetStatic, thr, rl >>

\* ++iter, up to one increment past the end
CallNodeIteratorIncrement ==
  /\ Alive
  /\ lastOp.op = "ROOTGeoNodeForwardIterator"
  /\ lastOp.arg.increments <= Cardinality(NodesBelow(StartNode(lastOp.arg.start), << >>))
  /\ LET path == NodeIteratorIncrement(StartNode(lastOp.arg.start), lastResult.val) IN
     /\ lastOp' = [lastOp EXCEPT !.arg.increments = @ + 1,
                                 !.arg.visited = Visit(@, path)]
     /\ lastResult' = Value(path)
  /\ UNCHANGED << geoVars, cstatStatic, tpcStatic, opDetStatic, thr, rl >>

\* the positions on the faces across x of the boxes of the loaded cryostats
\* and TPCs, at the height and depth of the detector centre
BoxPoints ==
  LET boxes == { Boundaries(fCryostats[c]) : c \in DOMAIN fCryostats }
               \cup UNION { { Boundaries(fCryostats[c].tpcs[t]) :
                                t \in DOMAIN fCryostats[c].tpcs } :
                            c \in DOMAIN fCryostats }
  IN  UNION { { << b[1], 0, 0 >>, << b[2], 0, 0 >> } : b \in boxes }

\* GeometryCore::FindCryostatAtPosition at a position on the face of a box
CallFindCryostatAtBoxPoint ==
  /\ Alive
  /\ \E worldLoc \in BoxPoints :
       \E o \in FindCryostatAtPosition(fCryostats, cstatStatic, worldLoc) :
         /\ lastOp' = [op |-> "FindCryostatAtPosition", arg |-> worldLoc]
         /\ lastResult' = o.res
         /\ cstatStatic' = o.st
  /\ UNCHANGED << geoVars, tpcStatic, opDetStatic, thr, rl >>

\* GeometryCore::FindTPCAtPosition at a position on the face of a box
CallFindTPCAtBoxPoint ==
  /\ Alive
  /\ \E worldLoc \in BoxPoints :
       \E o \in FindTPCAtPosition(fCryostats, cstatStatic, tpcStatic, worldLoc) :
         /\ lastOp' = [op |-> "FindTPCAtPosition", arg |-> worldLoc]
         /\ lastResult' = o.res
         /\ cstatStatic' = o.cst
         /\ tpcStatic' = o.tst
  /\ UNCHANGED << geoVars, opDetStatic, thr, rl >>

NextElements ==
  \/ CallSortSubVolumes
  \/ CallFindCryostatAtBoxPoint
  \/ CallFindTPCAtBoxPoint
  \/ CallCryostatGeo
  \/ CallNodeIteratorInit
  \/ CallNodeIteratorIncrement

SpecElements == Init /\ [][NextElements]_vars

-----------------------------------------------------------------------------
(* Properties *)

NonDecreasing(keys) == \A i, j \in 1..Len(keys) : i < j => keys[i] <= keys[j]

\* every sibling collection of the tree is in the sorter's order
TreeSorted(cryos) ==
  /\ NonDecreasing([c \in 1..Len(cryos) |-> cryos[c].origin[1]])
  /\ \A c \in 1..Len(cryos) :
       /\ NonDecreasing([t \in 1..Len(cryos[c].tpcs) |-> cryos[c].tpcs[t].origin[1]])
       /\ \A t \in 1..Len(cryos[c].tpcs) :
            LET ps == cryos[c].tpcs[t].planes IN
            /\ NonDecreasing([p \in 1..Len(ps) |-> ps[p].origin[1]])
            /\ \A p \in 1..Len(ps) :
                 NonDecreasing([w \in 1..Len(ps[p].wires) |-> ps[p].wires[w].origin[3]])

\* every element's stored ID is the positions by which it is reached
TreeNumbered(cryos) ==
  \A c \in 1..Len(cryos) :
    /\ cryos[c].id = << c - 1 >>
    /\ \A t \in 1..Len(cryos[c].tpcs) :
         LET tpc == cryos[c].tpcs[t] IN
         /\ tpc.id = << c - 1, t - 1 >>
         /\ \A p \in 1..Len(tpc.planes) :
              /\ tpc.planes[p].id = << c - 1, t - 1, p - 1 >>
              /\ \A w \in 1..Len(tpc.planes[p].wires) :
                   tpc.planes[p].wires[w].id = << c - 1, t - 1, p - 1, w - 1 >>

\* the sort and the ID assignment of the last load have run: the load got
\* as far as handing its tree to Initialize
SortedAndNumbered == loadState \in {"ok", "chanmap"} /\ initArg = fCryostats

QueryOps ==
  { "FindCryostatAtPosition", "FindTPCAtPosition", "OpDetFromCryo", "Cryostat",
    "PlaneWireToChannel", "ChannelToWire" }

CompleteLoads(file) ==
  { L \in LoadNewGeometry(Unloaded, file, FALSE, TRUE) : L.state = "ok" }

\* elements, IDs and channel map all come from one complete load
CompleteGeometry ==
  /\ fGDMLfile \in Files
  /\ \E L \in CompleteLoads(fGDMLfile) :
       /\ L.cryos = fCryostats
       /\ L.auxdets = fAuxDets
       /\ L.chanMap = fChannelMapAlg

\* the channel mapping installed was built from the elements of the last load
ChannelMapOfThisLoad ==
  /\ ~fChannelMapAlg.null
  /\ initArg = fCryostats
  /\ fChannelMapAlg = Initialize(fCryostats)

\* C11: a load or reload that ends normally has installed a channel mapping
\* built for that load; one that installs none fails with ChannelMapLoadFail
C11_NoLoadWithoutChannelMap ==
  (lastOp.op \in {"Geometry", "preBeginRun"} /\ loadState = "ok" /\ Alive)
    => ChannelMapOfThisLoad

\* C2: whatever step of a load or reload failed, a query issued afterwards
\* sees elements, IDs and channel map that come from one complete load
C2_NoPartialGeometryExposed ==
  lastOp.op \in QueryOps => CompleteGeometry

\* C3: after a load or reload has completed, the bounding-box tables a
\* position query has used hold the boxes of the loaded elements and have
\* the size of the loaded collections, not those of an earlier load
C3_CachesInvalidatedOnReload ==
  (loadState = "ok" /\ lastOp.op \in {"FindCryostatAtPosition", "FindTPCAtPosition"})
    => /\ cstatStatic.b = BoundaryTable(fCryostats)
       /\ tpcStatic.init =>
            \E c \in 1..Len(fCryostats) : Len(tpcStatic.b) = 6 * NTPC(fCryostats[c])

\* the spatial cache is the one of the element tree, or not made yet
CacheOfTree == cstatStatic.init => cstatStatic.b = BoundaryTable(fCryostats)

\* C4: a query answered while a reload is in flight sees the element tree,
\* the channel map and the spatial cache of one complete load
C4_ReloadSwapsAtomically ==
  [][ (rl.pc # "idle" /\ rl' = rl /\ lastOp'.op \in QueryOps)
        => (CompleteGeometry /\ CacheOfTree) ]_vars

\* what a call returns when it runs alone: as the first call after the
\* load, or after one earlier call has returned
AloneResults(op, arg) ==
  IF op = "FindCryostatAtPosition"
  THEN { o.res : o \in FindCryostatAtPosition(fCryostats, CstatStaticInit, arg) }
  ELSE { OpDetFromCryo(fCryostats, st, arg[1], arg[2]).res :
           st \in {OpDetStaticInit}
                  \cup { OpDetFromCryo(fCryostats, OpDetStaticInit, oc[1], oc[2]).st :
                           oc \in Indices \X Indices } }

\* C5: with no reload in flight, a query called by one of several threads
\* returns what it returns when it runs alone, first fills of the look-up
\* tables included
C5_ConcurrentQueriesAsAlone ==
  (rl.pc = "idle" /\ lastOp.op \in {"FindCryostatAtPosition", "OpDetFromCryo"})
    => lastResult \in AloneResults(lastOp.op, lastOp.arg)

\* the two segments of a call of IntersectSegments are not parallel
NotParallel(a) ==
  (a[1][1] - a[2][1]) * (a[3][2] - a[4][2]) # (a[1][2] - a[2][2]) * (a[3][1] - a[4][1])

\* the point << x, y >> lies on the supporting line of the segment s..e
OnLine(s, e, x, y) ==
  (x[1] - s[1] * x[2]) * (e[2] - s[2]) * y[2] = (y[1] - s[2] * y[2]) * (e[1] - s[1]) * x[2]

\* the point lies within the bounding intervals of the segment s..e
InBox(s, e, x, y) ==
  /\ \E i \in {s[1], e[1]}, j \in {s[1], e[1]} : i * x[2] <= x[1] /\ x[1] <= j * x[2]
  /\ \E i \in {s[2], e[2]}, j \in {s[2], e[2]} : i * y[2] <= y[1] /\ y[1] <= j * y[2]

\* the crossing point of the supporting lines lies within both segments
CrossingWithin(a) ==
  LET l == IntersectLines(a[1], a[2], a[3], a[4], Whole(0), Whole(0)) IN
  InBox(a[1], a[2], l.x, l.y) /\ InBox(a[3], a[4], l.x, l.y)

\* C12: IntersectSegments on segments that are not parallel and whose
\* supporting lines cross within both segments reports an intersection and
\* returns the crossing point
C12_CrossingSegmentsIntersect ==
  (lastOp.op = "IntersectSegments" /\ NotParallel(lastOp.arg)
     /\ CrossingWithin(lastOp.arg))
    => /\ lastResult.kind = "value"
       /\ OnLine(lastOp.arg[1], lastOp.arg[2], lastResult.val[1], lastResult.val[2])
       /\ OnLine(lastOp.arg[3], lastOp.arg[4], lastResult.val[1], lastResult.val[2])

\* C13: IntersectSegments on parallel segments reports no intersection,
\* whatever the output arguments held before the call
C13_ParallelSegmentsDoNotIntersect ==
  (lastOp.op = "IntersectSegments" /\ ~NotParallel(lastOp.arg))
    => lastResult.kind = "invalid"

\* the two wires of a call of WireIDsIntersect are in different TPCs (of the
\* same or of different cryostats), or in the same plane of one TPC
NotComparable(a) ==
  \/ << a[1][1], a[1][2] >> # << a[2][1], a[2][2] >>
  \/ a[1][3] = a[2][3]

\* C14 as stated: WireIDsIntersect on wires of different TPCs or cryostats,
\* or of the same plane, fails with the error InvalidArgument
C14_IncomparableWiresRaise ==
  (lastOp.op = "WireIDsIntersect" /\ NotComparable(lastOp.arg))
    => lastResult = Error("InvalidArgument")

\* C14: WireIDsIntersect on wires of different TPCs or cryostats, or of the
\* same plane, raises nothing: it returns false, with the intersection set
\* to infinite y and z and an invalid TPC
C14_IncomparableWiresReturnFailure ==
  (lastOp.op = "WireIDsIntersect" /\ NotComparable(lastOp.arg))
    => lastResult = Invalid(NoIntersection)

\* two existing wires of different planes, in different TPCs, were compared
C14_Witness ==
  /\ lastOp.op = "WireIDsIntersect"
  /\ lastOp.arg[1][2] # lastOp.arg[2][2]
  /\ lastOp.arg[1][3] # lastOp.arg[2][3]
  /\ HasWire(fCryostats, lastOp.arg[1])
  /\ HasWire(fCryostats, lastOp.arg[2])
  /\ lastResult = Invalid(NoIntersection)

\* a coordinate is finite
Finite(x) == x[2] # 0

\* C15 as stated: whenever WireIDsIntersect returns false the intersection
\* holds infinite y and z and an invalid TPC; whenever it returns true the
\* intersection holds finite coordinates and the TPC of the wires
C15_FalseIsSentinel ==
  lastOp.op = "WireIDsIntersect"
    => /\ lastResult.kind = "invalid" => lastResult.val = NoIntersection
       /\ lastResult.kind = "value"
            => /\ Finite(lastResult.val.y) /\ Finite(lastResult.val.z)
               /\ lastResult.val.TPC = lastOp.arg[1][2]
               /\ lastResult.val.TPC = lastOp.arg[2][2]

\* the point << y, z >> is where the supporting lines of the two wires of the
\* call cross, and it lies outside the bounding intervals of one of them
CrossingOutsideWires(a, y, z) ==
  LET w1 == WireEndPoints(fCryostats, a[1])
      w2 == WireEndPoints(fCryostats, a[2])
  IN  /\ OnLine(w1.start, w1.end, y, z)
      /\ OnLine(w2.start, w2.end, y, z)
      /\ ~(InBox(w1.start, w1.end, y, z) /\ InBox(w2.start, w2.end, y, z))

\* C15: whenever WireIDsIntersect returns false the TPC of the intersection
\* is invalid, and y and z are either both infinite or the finite point
\* where the lines of the wires cross outside the wires; whenever it returns
\* true the intersection holds finite coordinates and the TPC of the wires
C15_FalseIsInvalidTPC ==
  lastOp.op = "WireIDsIntersect"
    => /\ lastResult.kind = "invalid"
            => /\ lastResult.val.TPC = InvalidID
               /\ \/ lastResult.val = NoIntersection
                  \/ /\ Finite(lastResult.val.y) /\ Finite(lastResult.val.z)
                     /\ ~NotComparable(lastOp.arg)
                     /\ CrossingOutsideWires(lastOp.arg, lastResult.val.y, lastResult.val.z)
       /\ lastResult.kind = "value"
            => /\ Finite(lastResult.val.y) /\ Finite(lastResult.val.z)
               /\ lastResult.val.TPC = lastOp.arg[1][2]
               /\ lastResult.val.TPC = lastOp.arg[2][2]

\* two wires whose lines cross outside the wires were compared
C15_Witness ==
  /\ lastOp.op = "WireIDsIntersect"
  /\ lastResult.kind = "invalid"
  /\ Finite(lastResult.val.y)
  /\ lastResult.val.TPC = InvalidID

\* C16: the comparison of two IDs is the lexicographic order, cryostat index
\* first, then TPC, plane and wire: exactly one of a < b, a == b, b < a
\* holds, a != b is the negation of a == b, and a.cmp(b) is negative iff
\* a < b, zero iff a == b, positive iff b < a
C16_LexicographicTotalOrder ==
  lastOp.op = "CompareIDs"
    => LET a == lastOp.arg[1]
           b == lastOp.arg[2]
           r == lastResult.val
       IN  /\ r.lt <=> LexLess(a, b)
           /\ r.gt <=> LexLess(b, a)
           /\ r.eq <=> a = b
           /\ Cardinality({ k \in {"lt", "eq", "gt"} : r[k] }) = 1
           /\ r.ne <=> ~r.eq
           /\ r.cmp < 0 <=> r.lt
           /\ r.cmp = 0 <=> r.eq
           /\ r.cmp > 0 <=> r.gt

\* two WireIDs were compared whose cryostats and wires are in opposite order
C16_Witness ==
  /\ lastOp.op = "CompareIDs"
  /\ Len(lastOp.arg[1]) = 4
  /\ lastOp.arg[1][1] < lastOp.arg[2][1]
  /\ lastOp.arg[1][4] > lastOp.arg[2][4]
  /\ lastResult.val.lt
  /\ lastResult.val.cmp < 0

RECURSIVE NamesElement(_)
NamesElement(id) ==
  IF id = << >> THEN TRUE
  ELSE /\ NamesElement(SubSeq(id, 1, Len(id) - 1))
       /\ id[Len(id)] < NElements(fCryostats, SubSeq(id, 1, Len(id) - 1))

\* the IDs of the elements of a level
ElementIDs(n) == { id \in [1..n -> 0..2] : NamesElement(id) }

RECURSIVE DeepestNode(_, _)
DeepestNode(node, depth) ==
  LET below == { DeepestNode(node.kids[i], depth + 1) : i \in 1..Len(node.kids) }
  IN  IF below = {} THEN depth ELSE CHOOSE d \in below : \A e \in below : e <= d

\* C19: the builder raises an error whenever the tree has a node deeper
\* than the path buffer holds, and on no tree does it read or write an
\* entry of the path at an index of MaxDepth or beyond
C19_DepthExceededAndPathInBounds ==
  lastOp.op = "FindElements"
    => /\ DeepestNode(lastOp.arg, 0) >= MaxDepth
            => /\ lastResult.kind = "error"
               /\ lastResult.cat \in {"GeometryCore", "BadTGeoNode"}
       /\ lastResult.val.top < MaxDepth

\* the builder was stopped at the last entry of the path on a tree that
\* goes deeper
C19_Witness ==
  /\ lastOp.op = "FindElements"
  /\ DeepestNode(lastOp.arg, 0) > MaxDepth
  /\ lastResult.kind = "error"
  /\ lastResult.val.top = MaxDepth - 1

\* the two planes of a call of ThirdPlane are different planes of one TPC
\* that has exactly three planes
TwoPlanesOfThree(a) ==
  /\ NamesElement(a[1]) /\ NamesElement(a[2])
  /\ SubSeq(a[1], 1, 2) = SubSeq(a[2], 1, 2)
  /\ a[1] # a[2]
  /\ NElements(fCryostats, SubSeq(a[1], 1, 2)) = 3

\* C20: ThirdPlane(p1, p2) succeeds exactly when p1 and p2 are two different
\* planes of one TPC that has exactly three planes; it then returns the
\* ID of a plane of that TPC, different from both; in every other case it
\* raises an error of category "GeometryCore"
C20_ThirdPlaneExactlyForTwoOfThree ==
  lastOp.op = "ThirdPlane"
    => IF TwoPlanesOfThree(lastOp.arg)
       THEN /\ lastResult.kind = "value"
            /\ NamesElement(lastResult.val)
            /\ SubSeq(lastResult.val, 1, 2) = SubSeq(lastOp.arg[1], 1, 2)
            /\ lastResult.val # lastOp.arg[1]
            /\ lastResult.val # lastOp.arg[2]
       ELSE lastResult = Error("GeometryCore")

\* the queried position is the geometric centre of TPC t of cryostat c
AtCenterOf(c, t) ==
  /\ lastOp.op = "FindTPCAtPosition"
  /\ c < Len(fCryostats)
  /\ t < NTPC(fCryostats[c + 1])
  /\ lastOp.arg = fCryostats[c + 1].tpcs[t + 1].origin

\* C21: FindTPCAtPosition asked at the geometric centre of TPC t of
\* cryostat c returns the ID (c, t), whatever was queried before and
\* however many TPCs the other cryostats hold
C21_CenterFindsItsTPC ==
  \A c \in Indices, t \in Indices :
    AtCenterOf(c, t) => lastResult = Value(<< c, t >>)

\* the queried position is in no cryostat of the loaded geometry, or in no
\* TPC of the one cryostat it is in
OutsideDetector ==
  LET here == { c \in 0..(Len(fCryostats) - 1) :
                  InsideWiggled(lastOp.arg, BoundaryTable(fCryostats), c) }
  IN  \/ here = {}
      \/ /\ lastOp.op = "FindTPCAtPosition"
         /\ \A c \in here : \A t \in 0..(NTPC(fCryostats[c + 1]) - 1) :
              ~InsideWiggled(lastOp.arg, BoundaryTable(fCryostats[c + 1].tpcs), t)

\* C22: a position query outside the detector answers with an invalid ID
\* or a raised error, never with a valid ID or a crash, whatever queries
\* and reloads came before
C22_OutsideFailsCleanly ==
  (lastOp.op \in {"FindCryostatAtPosition", "FindTPCAtPosition"} /\ OutsideDetector)
    => lastResult.kind \in {"invalid", "error"}

\* a run has begun whose detector name is rd, with ForceUseFCLOnly false
RunBegun(rd) ==
  /\ lastOp'.op = "preBeginRun"
  /\ lastOp'.arg = << rd >>
  /\ lastResult' = NoResult
  /\ ~fForceUseFCLOnly

\* the step has loaded the geometry of the detector called name
LoadedAnew(name) ==
  /\ loadCount' = loadCount + 1
  /\ fDetectorName' = name
  /\ fGDMLfile' = name \o ".gdml"
  /\ \E L \in CompleteLoads(name \o ".gdml") :
       L.cryos = fCryostats' /\ L.auxdets = fAuxDets'

\* the step has left the geometry and the detector name alone
NothingReloaded ==
  UNCHANGED << fCryostats, fAuxDets, fChannelMapAlg, fDetectorName, fGDMLfile,
               loadCount >>

C24_ConfiguredSorterTakesPrecedence ==
  lastOp.op = "InitializeChannelMap" =>
    lastResult = Value(<< IF lastOp.arg[2] THEN "Sorter" ELSE "ChannelMapSorter" >>)

\* C25: after the sort and the ID assignment the drift direction of every
\* TPC is the positive or the negative one, never the unknown one, whatever
\* the origins of the TPC and of its first plane
C25_DriftDirectionKnown ==
  lastOp.op = "SortSubVolumes" =>
    \A t \in DOMAIN lastResult.val : lastResult.val[t] \in {"kPosX", "kNegX"}

\* C26: the construction of a cryostat from a node without outline volume
\* raises the error "cannot find cryostat outline volume" of category
\* CryostatGeo, and nothing is read through the missing volume
C26_MissingOutlineVolumeRaises ==
  (lastOp.op = "CryostatGeo" /\ ~lastOp.arg[2]) => lastResult = Error("CryostatGeo")

\* C27: within one loaded geometry the table of the cryostat boxes and the
\* table of the TPC boxes are each filled at the first query that uses them
\* and left as they are by every later query
C27_TablesComputedOnce ==
  [][ (lastOp'.op \in {"FindCryostatAtPosition", "FindTPCAtPosition"}
         /\ loadCount' = loadCount)
        => /\ (cstatStatic.init /\ ~cstatStatic.first) => cstatStatic'.b = cstatStatic.b
           /\ tpcStatic.init => tpcStatic'.b = tpcStatic.b ]_vars

\* the optical detectors of the cryostats before cryostat c
OpDetsBefore(c) == LowestIDs(fCryostats, c)[c + 1]

\* C28: for every cryostat c and every o < NOpDet(c), OpDetFromCryo(o, c) is
\* the number of optical detectors of the cryostats before c plus o, and
\* OpDetGeoFromOpDet of that number is optical detector o of cryostat c,
\* whichever pair was asked first
C28_OpDetNumberingBijective ==
  (/\ lastOp.op = "OpDetFromCryo"
   /\ lastOp.arg[2] < Ncryostats(fCryostats)
   /\ lastOp.arg[1] < NOpDet(fCryostats[lastOp.arg[2] + 1]))
    => /\ lastResult = Value(<< OpDetsBefore(lastOp.arg[2]) + lastOp.arg[1] >>)
       /\ OpDetGeoFromOpDet(fCryostats, OpDetStaticInit, lastResult.val[1]).res
            = Value(<< lastOp.arg[2], lastOp.arg[1] >>)

\* a node is a descendant of another one
DescendantOf(d, a) == Len(d) > Len(a) /\ SubSeq(d, 1, Len(a)) = a

\* C29: the node iterator started at a node is at a node as long as it has
\* been incremented fewer times than the subtree has nodes, and at the end
\* from then on; it visits no node twice and no node before one of its
\* descendants, and at the end it has visited every node of the subtree
C29_NodeIteratorVisitsSubtreeOnce ==
  lastOp.op = "ROOTGeoNodeForwardIterator" =>
    LET nodes == NodesBelow(StartNode(lastOp.arg.start), << >>)
        visited == lastOp.arg.visited
        current_path == lastResult.val
    IN  /\ (current_path = << >>) <=> (lastOp.arg.increments >= Cardinality(nodes))
        /\ current_path # << >> => Len(visited) = lastOp.arg.increments + 1
        /\ \A i, j \in DOMAIN visited :
             i < j => visited[i] # visited[j] /\ ~DescendantOf(visited[j], visited[i])
        /\ current_path = << >> => { visited[i] : i \in DOMAIN visited } = nodes

\* the iterator has been incremented past the end of a subtree of several
\* levels and has stayed there
C29_Witness ==
  /\ lastOp.op = "ROOTGeoNodeForwardIterator"
  /\ lastResult.val = << >>
  /\ lastOp.arg.increments > Len(lastOp.arg.visited)
  /\ \E i \in DOMAIN lastOp.arg.visited : Len(lastOp.arg.visited[i]) >= 3

\* a position lies inside the exact box of an element, faces included
InsideExact(worldLoc, e) ==
  \A a \in 0..2 :
    /\ Boundaries(e)[2 * a + 1] <= worldLoc[a + 1]
    /\ worldLoc[a + 1] <= Boundaries(e)[2 * a + 2]

\* the cryostats and the TPCs whose exact box holds the position
CryostatsHolding(worldLoc) ==
  { << c - 1 >> : c \in { k \in DOMAIN fCryostats : InsideExact(worldLoc, fCryostats[k]) } }

TPCsHolding(worldLoc) ==
  UNION { { << c - 1, t - 1 >> :
              t \in { k \in DOMAIN fCryostats[c].tpcs :
                        InsideExact(worldLoc, fCryostats[c].tpcs[k]) } } :
          c \in DOMAIN fCryostats }

\* C30: the tolerance only enlarges a box: a position inside the exact box
\* of a cryostat is reported inside a cryostat holding it, a position inside
\* the exact box of a TPC inside a TPC holding it, whatever the signs of the
\* boundaries
C30_ToleranceOnlyEnlarges ==
  /\ (lastOp.op = "FindCryostatAtPosition" /\ CryostatsHolding(lastOp.arg) # {})
       => (lastResult.kind = "value" /\ lastResult.val \in CryostatsHolding(lastOp.arg))
  /\ (lastOp.op = "FindTPCAtPosition" /\ TPCsHolding(lastOp.arg) # {})
       => (lastResult.kind = "value" /\ lastResult.val \in TPCsHolding(lastOp.arg))

\* what each query would answer in the current state
Answers ==
  [cryo |-> [p \in Points |->
       { o.res : o \in FindCryostatAtPosition(fCryostats, cstatStatic, p) }],
   tpc |-> [p \in Points |->
       { o.res : o \in FindTPCAtPosition(fCryostats, cstatStatic, tpcStatic, p) }],
   opdet |-> [oc \in Indices \X Indices |->
       OpDetFromCryo(fCryostats, opDetStatic, oc[1], oc[2]).res]]

\* C6: a failing query leaves every later query's answer what it would have
\* been without it
C6_FailingQueryCorruptsNothing ==
  [][ (lastOp'.op \in QueryOps /\ Failed(lastResult')) => Answers' = Answers ]_vars

\* C7: after sort and ID assignment every element's stored ID equals the
\* positions by which it is reached from the root
C7_IDsMatchPositions == SortedAndNumbered => TreeNumbered(fCryostats)

\* a load that reordered cryostats, TPCs, planes and wires was numbered
C7_Witness ==
  /\ loadState = "ok" /\ fGDMLfile = "deta.gdml"
  /\ fCryostats[1].disc = 2
  /\ fCryostats[2].tpcs[1].disc = 2
  /\ fCryostats[2].tpcs[2].planes[1].disc = 2
  /\ fCryostats[2].tpcs[2].planes[2].wires[1].disc = 2
  /\ fCryostats[2].tpcs[2].planes[2].wires[1].id = << 1, 1, 1, 0 >>

\* the order of every sibling collection and every stored ID
RECURSIVE OrderAndIDs(_)
OrderAndIDs(elems) ==
  [i \in 1..Len(elems) |->
     [disc |-> elems[i].disc, id |-> elems[i].id,
      sub |-> IF "tpcs" \in DOMAIN elems[i] THEN OrderAndIDs(elems[i].tpcs)
              ELSE IF "planes" \in DOMAIN elems[i] THEN OrderAndIDs(elems[i].planes)
              ELSE IF "wires" \in DOMAIN elems[i] THEN OrderAndIDs(elems[i].wires)
              ELSE << >>]]

\* C8: running the Sorter and the ID Assigner again on the sorted tree
\* leaves the order of every sibling collection and every stored ID as is
C8_SortAndAssignIdempotent ==
  SortedAndNumbered =>
    LET geo == [cryos |-> fCryostats, auxdets |-> fAuxDets]
        again == UpdateAfterSorting(SortGeometry(geo))
    IN  /\ OrderAndIDs(again.cryos) = OrderAndIDs(fCryostats)
        /\ again.auxdets = fAuxDets

\* the sorted and numbered tree of "deta", whose every level was reordered
C8_Witness ==
  /\ SortedAndNumbered /\ loadCount > 1 /\ Len(fCryostats) = 2
  /\ fCryostats[1].disc = 2 /\ fCryostats[2].tpcs[1].disc = 2

\* C9: siblings that compare equal by position are left in discovery order,
\* so that sorting the same siblings always gives the same sequence
C9_TiesInDiscoveryOrder ==
  \A c \in 1..Len(fCryostats) :
    LET ods == fCryostats[c].opdets IN
    \A i, j \in 1..Len(ods) :
      (i < j /\ ods[i].origin = ods[j].origin) => ods[i].disc < ods[j].disc

\* C10: for every wire of the loaded geometry, the list
\* ChannelToWire(PlaneWireToChannel(wire)) holds the wire's WireID
C10_ChannelRoundTrip ==
  loadState = "ok" =>
    \A wid \in WireIDsOf(fCryostats) :
      LET ws == ChannelToWire(fChannelMapAlg, PlaneWireToChannel(fChannelMapAlg, wid))
      IN  \E k \in 1..Len(ws) : ws[k] = wid

=============================================================================
